---- MODULE Spec2Model ----
(***************************************************************************)
(* Model of neon-testing (index.ts): the per-suite branch lifecycle        *)
(* (makeNeonTesting / neonTesting, createBranch, deleteBranch, the         *)
(* beforeAll and afterAll hooks), the option validation and merge, the     *)
(* bulk cleanup deleteAllTestBranches, the retry wrapper withRetry and the *)
(* uncaughtException handler neonWsErrorHandler.                           *)
(*                                                                         *)
(* JavaScript strings are modelled as sequences of tokens, so that         *)
(* String.prototype.includes is a real sub-sequence test.  The JavaScript  *)
(* value undefined is the record JsUndefined; a string s is JsString(s).   *)
(***************************************************************************)
EXTENDS Integers, Sequences, FiniteSets, TLC

VARIABLES
  \* ---- the factory call makeNeonTesting(factoryOptions) and the clock
  factoryOptions,       \* the options object passed to makeNeonTesting()
  makeResult,           \* outcome of the makeNeonTesting() call
  callResult,           \* outcome of each neonTesting(overrides) call
  now,                  \* Date.now(), also the time on the service
  VITEST,               \* process.env.VITEST
  setupPc,              \* position of the setup file vitest-setup
  setupWarned,          \* the setup file has logged that it clears a URL
  \* ---- one entry per suite activation (one neonTesting(overrides) call)
  overrides,            \* the overrides object passed to neonTesting()
  pc,                   \* position of the activation's hooks
  attempt,              \* withRetry's loop variable inside beforeAll
  branch,               \* the closure variable `branch`
  neonSockets,          \* the closure Set `neonSockets`
  beforeResult,         \* settlement of the beforeAll hook
  afterResult,          \* settlement of the afterAll hook
  created,              \* ids returned by successful create-branch responses
  deleteCall,           \* the delete-branch request issued by afterAll
  delays,               \* backoff delays waited by beforeAll's withRetry
  createRequest,        \* the latest create-branch request submitted
  branchNames,          \* branch.name of every create-branch request
  createResponse,       \* data.roles, data.databases held by createBranch
  uriRequest,           \* the getConnectionUri request in flight
  testsRun,             \* number of test bodies executed
  \* ---- process-wide state
  DATABASE_URL,         \* process.env.DATABASE_URL
  webSocketConstructor, \* neonConfig.webSocketConstructor
  sockets,              \* WebSocket objects constructed so far
  listeners,            \* neonWsErrorHandler entries on 'uncaughtException'
  lastUncaught,         \* the last uncaught exception and what became of it
  \* ---- the Neon service and the API client
  service,              \* branches that exist on the service
  annotations,          \* the service's annotation of each branch, by id
  nextId,               \* number of branches the service has created
  faults,               \* number of failed API responses so far
  \* ---- a stand-alone run of withRetry(fn, options)
  rOptions,             \* withRetry's options argument
  rPc,                  \* position inside withRetry
  rAttempt,             \* withRetry's loop variable
  rCalls,               \* sequence of outcomes of the invocations of fn
  rDelays,              \* sequence of delays waited
  rResult,              \* settlement of the promise withRetry returns
  \* ---- a stand-alone call of neonWsErrorHandler(error)
  hError,               \* the error passed to the handler
  hOutcome,             \* "swallowed" or "rethrown"
  \* ---- calls of deleteAllTestBranches()
  cPc,                  \* position inside deleteAllTestBranches
  cCalls,               \* number of calls started so far
  cListing,             \* `data` of the listProjectBranches response
  cIndex,               \* position of the for-of loop in data.branches
  cDeletes,             \* delete-branch calls issued, for each call
  cResult               \* settlement of the promise of each call

configVars ==
  <<factoryOptions, makeResult, callResult, now, VITEST, setupPc,
    setupWarned>>

lifecycleVars ==
  <<overrides, pc, attempt, branch, neonSockets, beforeResult, afterResult,
    created, deleteCall, delays, createRequest, branchNames, createResponse,
    uriRequest, testsRun, DATABASE_URL, webSocketConstructor, sockets,
    listeners, lastUncaught, service, annotations, nextId, faults>>

retryVars == <<rOptions, rPc, rAttempt, rCalls, rDelays, rResult>>

handlerVars == <<hError, hOutcome>>

cleanupVars == <<cPc, cCalls, cListing, cIndex, cDeletes, cResult>>

vars == <<configVars, lifecycleVars, retryVars, handlerVars, cleanupVars>>

----------------------------------------------------------------------------
(* Bounds of the model *)

MaxFaults == 2          \* failed API responses per behaviour
MaxSockets == 2         \* WebSockets constructed per behaviour
MaxTests == 1           \* test bodies counted per activation
MaxPolicyRetries == 3   \* largest maxRetries tried besides the hook's own
MaxMessageLen == 4      \* longest error message, in tokens
MaxCleanupCalls == 2    \* calls of deleteAllTestBranches per behaviour
MaxTicks == 2           \* steps of the clock per behaviour

----------------------------------------------------------------------------
(* JavaScript values *)

JsUndefined == [t |-> "undefined", s |-> <<>>]

JsString(s) == [t |-> "string", s |-> s]

\* String.prototype.includes
Includes(s, sub) ==
  \E i \in 1..(Len(s) + 1) :
    /\ i + Len(sub) - 1 <= Len(s)
    /\ SubSeq(s, i, i + Len(sub) - 1) = sub

\* Assignment to a property of process.env converts the value to a string
EnvAssign(v) == IF v.t = "undefined" THEN JsString(<<"undefined">>) ELSE v

\* `delete process.env.X`, and the value read from a variable that is not set
EnvUnset == JsUndefined

----------------------------------------------------------------------------
(* Options: makeNeonTesting(factoryOptions) and neonTesting(overrides) *)

\* A key that the object does not have
Missing == "<missing>"

\* A key that is present with the value undefined; also what reading a
\* missing key yields
Undef == "<undefined>"

OptionKeys ==
  {"projectId", "parentBranchId", "schemaOnly", "endpoint", "deleteBranch",
   "autoCloseWebSockets", "expiresIn", "roleName", "databaseName"}

NoOverrides == [k \in OptionKeys |-> Missing]

\* The factory options of the examples: only apiKey and projectId are given
ExampleFactoryOptions == [NoOverrides EXCEPT !["projectId"] = "p1"]

\* Mutant: the spread in the wrong order, the factory value wins
MergeOptions_FactoryFirst(f, o) ==
  [k \in OptionKeys |-> IF f[k] # Missing THEN f[k] ELSE o[k]]

\* Mutant: a merge that passes over the keys whose value is undefined
MergeOptions_SkipsUndefined(f, o) ==
  [k \in OptionKeys |-> IF o[k] \notin {Missing, Undef} THEN o[k] ELSE f[k]]

\* const options = { ...factoryOptions, ...overrides }
MergeOptions(f, o) ==
  [k \in OptionKeys |-> IF o[k] # Missing THEN o[k] ELSE f[k]]

\* options.<k>
Get(o, k) == IF o[k] = Missing THEN Undef ELSE o[k]

\* JavaScript truthiness of an option value
Truthy(v) == v \notin {Undef, Missing, "false", ""}

\* The overrides objects the activations are called with
OverrideChoices ==
  { NoOverrides,
    [NoOverrides EXCEPT !["deleteBranch"] = "false"],
    [NoOverrides EXCEPT !["projectId"] = "p2"],
    [NoOverrides EXCEPT !["autoCloseWebSockets"] = "true"],
    [NoOverrides EXCEPT !["roleName"] = "app_role",
                        !["endpoint"] = "direct"] }

\* The overrides of the suites that use WebSocket drivers
DrainOverrideChoices ==
  { NoOverrides,
    [NoOverrides EXCEPT !["autoCloseWebSockets"] = "true"],
    [NoOverrides EXCEPT !["autoCloseWebSockets"] = "true",
                        !["deleteBranch"] = "false"] }

Activations == {"a1", "a2"}

options(a) == MergeOptions(factoryOptions, overrides[a])

----------------------------------------------------------------------------
(* Numbers and times *)

\* A JavaScript number that is a multiple of one half, held as its double:
\* 1201 stands for 600.5.  null and undefined have the same shape.
JsNumber(halves) == [t |-> "number", halves |-> halves]

JsNull == [t |-> "null", halves |-> 0]

JsNoNumber == [t |-> "undefined", halves |-> 0]

\* The value of the expiresIn key, written as in the source of the caller
ExpiresInValue(v) ==
  CASE v \in {Missing, Undef} -> JsNoNumber
    [] v = "null" -> JsNull
    [] v = "-10" -> JsNumber(-20)
    [] v = "0" -> JsNumber(0)
    [] v = "1" -> JsNumber(2)
    [] v = "600" -> JsNumber(1200)
    [] v = "600.5" -> JsNumber(1201)
    [] v = "1800" -> JsNumber(3600)
    [] v = "2592000" -> JsNumber(5184000)
    [] v = "2592001" -> JsNumber(5184002)

\* Number.isInteger
IsInteger(x) == x.halves % 2 = 0

\* if (expiresIn > 2592000)
MaxExpiresIn == 2592000

\* options.expiresIn === undefined ? 600 : options.expiresIn
DefaultExpiresIn == 600

\* Mutant: zero passes the positivity check
NotPositive_Strict(x) == x.halves < 0

\* if (expiresIn <= 0)
NotPositive(x) == x.halves <= 0

\* validateExpiresIn: the message of the error it throws, <<>> if it returns
validateExpiresIn(x) ==
  IF x.t \in {"null", "undefined"} THEN <<>>
  ELSE IF ~IsInteger(x) THEN <<"expiresIn must be an integer">>
  ELSE IF NotPositive(x) THEN <<"expiresIn must be a positive integer">>
  ELSE IF x.halves > 2 * MaxExpiresIn
    THEN <<"expiresIn must not exceed 30 days", "(2,592,000 seconds)">>
  ELSE <<>>

\* A point in time: whole seconds and milliseconds since the run began
Instant(s, ms) == [t |-> "date", s |-> s, ms |-> ms]

\* An expires_at that is undefined
NoTimestamp == [t |-> "undefined", s |-> 0, ms |-> 0]

\* time + ms
PlusMs(time, ms) ==
  Instant(time.s + ((time.ms + ms) \div 1000), (time.ms + ms) % 1000)

\* Mutant: the factor 1000 is missing, the expiry is added as milliseconds
PlusExpiresIn_AsMs(time, x) == PlusMs(time, x.halves \div 2)

\* new Date(Date.now() + expiresIn * 1000): expiresIn * 1000 ms are
\* x.halves * 500 ms
PlusExpiresIn(time, x) ==
  PlusMs(Instant(time.s + (x.halves \div 2), time.ms), (x.halves % 2) * 500)

\* Mutant: no default, an absent expiresIn is used as it is
EffectiveExpiresIn_NoDefault(o) == ExpiresInValue(Get(o, "expiresIn"))

\* createBranch: const expiresIn
EffectiveExpiresIn(o) ==
  IF Get(o, "expiresIn") = Undef THEN JsNumber(2 * DefaultExpiresIn)
  ELSE ExpiresInValue(Get(o, "expiresIn"))

\* createBranch: const expiresAt, computed at time `time`
ExpiresAt(o, time) ==
  IF EffectiveExpiresIn(o).t # "null"
  THEN PlusExpiresIn(time, EffectiveExpiresIn(o))
  ELSE NoTimestamp

\* t1 - t2 in milliseconds, for instants less than a day apart
MsBetween(t1, t2) == (t1.s - t2.s) * 1000 + (t1.ms - t2.ms)

\* t1 <= t2
NotAfter(t1, t2) == t1.s < t2.s \/ (t1.s = t2.s /\ t1.ms <= t2.ms)

----------------------------------------------------------------------------
(* Errors *)

\* error?.response?.status of an error that carries no response
NoStatus == 0

\* The status withRetry retries on
LockedStatus == 423

\* An error value: `at` is the attempt during which it was raised, which
\* tells the errors of different attempts apart
Err(message, status, at) == [message |-> message, status |-> status, at |-> at]

NoError == Err("", NoStatus, 0)

\* Failures of an API call: locked, another HTTP status, or no response
FailureStatuses == {LockedStatus, 500, NoStatus}

ApiError(status, at) == Err("Request failed", status, at)

Pending == [state |-> "pending", error |-> NoError]

Fulfilled == [state |-> "fulfilled", error |-> NoError]

Rejected(e) == [state |-> "rejected", error |-> e]

----------------------------------------------------------------------------
(* withRetry: the decisions of its loop *)

\* beforeAll's policy
CreateMaxRetries == 8

CreateBaseDelayMs == 1000

RECURSIVE Pow2(_)
Pow2(n) == IF n = 0 THEN 1 ELSE 2 * Pow2(n - 1)

\* Mutant: retries whatever the status of the failure
ShouldRetry_AnyStatus(status, att, maxRetries) == att < maxRetries

\* Mutant: off by one, waits and loops once more after the last attempt
ShouldRetry_OffByOne(status, att, maxRetries) ==
  status = LockedStatus /\ att <= maxRetries

\* if (status === 423 && attempt < options.maxRetries)
ShouldRetry(status, att, maxRetries) ==
  status = LockedStatus /\ att < maxRetries

\* Mutant: a delay that grows linearly
BackoffDelay_Linear(baseDelayMs, att) == baseDelayMs * att

\* options.baseDelayMs * Math.pow(2, attempt - 1)
BackoffDelay(baseDelayMs, att) == baseDelayMs * Pow2(att - 1)

\* The two checks at the top of withRetry (the values are integers here)
ValidRetryOptions(o) == o.maxRetries > 0 /\ o.baseDelayMs > 0

----------------------------------------------------------------------------
(* The Neon service, as seen through the API client *)

\* Ids the service hands out, in order of creation
BranchIds == <<"br-1", "br-2", "br-3", "br-4", "br-5", "br-6", "br-7", "br-8">>

\* data.branch of a create-branch response
BranchRecord(id, projectId, createdAt, expiresAt) ==
  [id |-> id, project_id |-> projectId, created_at |-> createdAt,
   expires_at |-> expiresAt]

\* `let branch: Branch | undefined` holding undefined
NoBranch == BranchRecord(Undef, Undef, NoTimestamp, NoTimestamp)

\* Mutant: the key is spelt with an underscore
TestAnnotation_Underscore == {<<"integration_test", "true">>}

\* annotation_value of the create-branch request, as key-value pairs
TestAnnotation == {<<"integration-test", "true">>}

\* The entry of the service's annotation map for a branch
Annotation(id, value) == [id |-> id, value |-> value]

\* crypto.randomUUID(): the value returned to the n-th call made on behalf of
\* activation a.  Version 4 UUIDs carry 122 random bits; calls are taken to
\* return values that no other call returns
randomUUID(a, n) == <<a, n>>

\* Mutant: the name is made once for the activation, not for each request
BranchName_PerActivation(a, n) == <<"test/", randomUUID(a, 1)>>

\* name: `test/${crypto.randomUUID()}`, evaluated by the n-th createBranch
\* call of activation a
BranchName(a, n) == <<"test/", randomUUID(a, n)>>

\* The create-branch request: the project, branch.parent_id,
\* branch.init_source, branch.expires_at and annotation_value
CreateRequest(o, time) ==
  [projectId |-> Get(o, "projectId"),
   parent_id |-> Get(o, "parentBranchId"),
   init_source |-> IF Truthy(Get(o, "schemaOnly")) THEN "schema-only"
                   ELSE Undef,
   expires_at |-> ExpiresAt(o, time),
   annotation_value |-> TestAnnotation]

NoCreateRequest ==
  [projectId |-> Undef, parent_id |-> Undef, init_source |-> Undef,
   expires_at |-> NoTimestamp, annotation_value |-> {}]

\* No create-branch response has arrived
NoCreateResponse == [roles |-> <<>>, databases |-> <<>>]

\* data.roles and data.databases of a create-branch response
ResponseShapes ==
  { [roles |-> <<"neondb_owner">>, databases |-> <<"neondb">>],
    [roles |-> <<"app_role", "neondb_owner">>, databases |-> <<"appdb">>],
    [roles |-> <<>>, databases |-> <<"neondb">>] }

\* The host part of the URI the service answers getConnectionUri with
EndpointHost(branchId, pooled) ==
  IF pooled THEN <<branchId, "-pooler", ".neon.tech/">>
  ELSE <<branchId, ".neon.tech/">>

\* uriData.uri
ConnectionUri(projectId, branchId, role, database, pooled) ==
  <<"postgresql://", role, "@">> \o EndpointHost(branchId, pooled)
    \o <<database, "?sslmode=require">>

\* The branch id a connection URI leads to
UriBranchId(uri) == uri[4]

\* Mutant: the pooled endpoint only when the option asks for it
Pooled_OnlyIfAsked(o) == Get(o, "endpoint") = "pooler"

\* getConnectionUri({ pooled: options.endpoint !== "direct" })
Pooled(o) == Get(o, "endpoint") # "direct"

Range(seq) == {seq[i] : i \in DOMAIN seq}

\* x ?? y
Nullish(x, y) == IF x = Undef THEN y ELSE x

\* list.find((e) => e.name === name)?.name
FindName(list, name) == IF name \in Range(list) THEN name ELSE Undef

\* list[0]?.name
FirstName(list) == IF Len(list) > 0 THEN list[1] ELSE Undef

\* Mutant: no preference for the owner role, the first listed role is taken
TargetRole_FirstListed(o, roles) ==
  Nullish(Get(o, "roleName"), FirstName(roles))

\* createBranch: targetRole
TargetRole(o, roles) ==
  Nullish(Get(o, "roleName"),
          Nullish(FindName(roles, "neondb_owner"), FirstName(roles)))

\* createBranch: targetDatabase
TargetDatabase(o, databases) ==
  Nullish(Get(o, "databaseName"),
          Nullish(FindName(databases, "neondb"), FirstName(databases)))

\* createBranch: the error thrown between the create-branch response and the
\* getConnectionUri request, "" if none is thrown
ResolveError(o, shape) ==
  IF ~Truthy(TargetRole(o, shape.roles)) THEN "No role available in branch"
  ELSE IF ~Truthy(TargetDatabase(o, shape.databases))
    THEN "No database available in branch"
  ELSE IF Truthy(Get(o, "roleName"))
          /\ Get(o, "roleName") \notin Range(shape.roles)
    THEN "Role not found"
  ELSE IF Truthy(Get(o, "databaseName"))
          /\ Get(o, "databaseName") \notin Range(shape.databases)
    THEN "Database not found"
  ELSE ""

----------------------------------------------------------------------------
(* WebSockets and the process *)

OriginalWebSocket == "WebSocket"

\* The URLs test bodies open WebSockets to
SocketUrls ==
  { <<"wss://", "br-1", "-pooler", ".neon.tech/", "v2">>,
    <<"wss://", "example.com/", "socket">> }

NoSocket == [state |-> "unused", url |-> <<>>]

\* ws.close(): an open socket starts its closing handshake
CloseSocket(ws) ==
  IF ws.state = "OPEN" THEN [ws EXCEPT !.state = "CLOSING"] ELSE ws

\* Mutant: every connection is tracked
IsNeonUrl_AnyUrl(url) == TRUE

\* if (!url.includes(".neon.tech/")) return;
IsNeonUrl(url) == Includes(url, <<".neon.tech/">>)

NoRequest ==
  [projectId |-> Undef, branch_id |-> Undef, role_name |-> Undef,
   database_name |-> Undef, pooled |-> FALSE]

NoDeleteCall ==
  [issued |-> FALSE, projectId |-> Undef, branchId |-> Undef, unclosed |-> {}]

----------------------------------------------------------------------------
(* neonWsErrorHandler *)

BenignMessage == <<"Connection", "terminated", "unexpectedly">>

NeonStackFrame == <<"@neondatabase/serverless">>

\* Mutant: the message alone decides
IsNeonWsClose_MessageOnly(error) == Includes(error.message, BenignMessage)

\* error.message.includes(..) && error.stack?.includes(..)
IsNeonWsClose(error) ==
  /\ Includes(error.message, BenignMessage)
  /\ error.stack.t = "string"
  /\ Includes(error.stack.s, NeonStackFrame)

\* What a call of the handler does with the error
neonWsErrorHandler(error) ==
  IF IsNeonWsClose(error) THEN "swallowed" ELSE "rethrown"

NoUncaught ==
  [event |-> "none", error |-> [message |-> <<>>, stack |-> JsUndefined],
   outcome |-> "none"]

\* What becomes of an error for which the process emits 'uncaughtException'
\* while n neonWsErrorHandler listeners are registered
GuardOutcome(n, error) ==
  IF n > 0 THEN neonWsErrorHandler(error) ELSE "unguarded"

\* The uncaught exceptions raised while suites run
UncaughtErrors ==
  { [message |-> BenignMessage,
     stack |-> JsString(<<"at", "@neondatabase/serverless">>)],
    [message |-> BenignMessage, stack |-> JsString(<<"at", "pg">>)] }

----------------------------------------------------------------------------
(* The lifecycle: initial state *)

\* The outcome of a call of makeNeonTesting or neonTesting
NotCalled == [state |-> "not called", message |-> <<>>]

Returned == [state |-> "returned", message |-> <<>>]

Threw(message) == [state |-> "threw", message |-> message]

\* The value Vitest gives process.env.VITEST in the processes it runs
VitestValue == JsString(<<"true">>)

\* The setup file has run under Vitest: DATABASE_URL is not set
SetupFileRan ==
  /\ VITEST = VitestValue
  /\ setupPc = "done"
  /\ setupWarned = FALSE
  /\ DATABASE_URL = EnvUnset

\* The closures, the process and the service before any hook has run
FreshHooks ==
  /\ now = Instant(0, 0)
  /\ attempt = [a \in Activations |-> 0]
  /\ branch = [a \in Activations |-> NoBranch]
  /\ neonSockets = [a \in Activations |-> {}]
  /\ beforeResult = [a \in Activations |-> Pending]
  /\ afterResult = [a \in Activations |-> Pending]
  /\ created = [a \in Activations |-> {}]
  /\ deleteCall = [a \in Activations |-> NoDeleteCall]
  /\ delays = [a \in Activations |-> <<>>]
  /\ createRequest = [a \in Activations |-> NoCreateRequest]
  /\ branchNames = [a \in Activations |-> <<>>]
  /\ createResponse = [a \in Activations |-> NoCreateResponse]
  /\ uriRequest = [a \in Activations |-> NoRequest]
  /\ testsRun = [a \in Activations |-> 0]
  /\ webSocketConstructor = OriginalWebSocket
  /\ sockets = [i \in 1..MaxSockets |-> NoSocket]
  /\ listeners = 0
  /\ lastUncaught = NoUncaught
  /\ nextId = 0
  /\ faults = 0

\* The process as the hooks find it when the setup file has run
FreshProcess ==
  /\ SetupFileRan
  /\ FreshHooks

\* A service without branches
EmptyService ==
  /\ service = {}
  /\ annotations = {}

\* makeNeonTesting and every neonTesting call have returned: the hooks of
\* every activation are registered
InitLifecycle ==
  /\ factoryOptions = ExampleFactoryOptions
  /\ makeResult = Returned
  /\ callResult = [a \in Activations |-> Returned]
  /\ overrides \in [Activations -> OverrideChoices \cup DrainOverrideChoices]
  /\ pc = [a \in Activations |-> "registered"]
  /\ FreshProcess
  /\ EmptyService

----------------------------------------------------------------------------
(* The lifecycle: beforeAll *)

\* Variables that no hook of beforeAll touches
beforeAllFrame ==
  <<overrides, neonSockets, afterResult, deleteCall, testsRun, sockets,
    listeners, lastUncaught, configVars, retryVars, handlerVars, cleanupVars>>

\* withRetry's catch clause, inside beforeAll: either wait and go round the
\* loop again, or rethrow, which rejects the hook
Catch(a, error) ==
  IF ShouldRetry(error.status, attempt[a], CreateMaxRetries)
  THEN /\ pc' = [pc EXCEPT ![a] = "backoff"]
       /\ delays' = [delays EXCEPT
                       ![a] = Append(@, BackoffDelay(CreateBaseDelayMs,
                                                     attempt[a]))]
       /\ UNCHANGED beforeResult
  ELSE /\ pc' = [pc EXCEPT ![a] = "tests"]
       /\ beforeResult' = [beforeResult EXCEPT ![a] = Rejected(error)]
       /\ UNCHANGED delays

\* Mutant: the await is missing, so the pending promise is published at once
BeforeAllStart_NoAwait(a) ==
  /\ pc[a] = "registered"
  /\ attempt' = [attempt EXCEPT ![a] = 1]
  /\ pc' = [pc EXCEPT ![a] = "creating"]
  /\ createRequest' =
       [createRequest EXCEPT ![a] = CreateRequest(options(a), now)]
  /\ branchNames' = [branchNames EXCEPT ![a] = Append(@, BranchName(a, 1))]
  /\ DATABASE_URL' = EnvAssign(JsString(<<"[object Promise]">>))
  /\ UNCHANGED <<branch, beforeResult, created, delays, createResponse,
                 uriRequest, webSocketConstructor, service, annotations,
                 nextId, faults>>
  /\ UNCHANGED beforeAllFrame

\* beforeAll starts: withRetry checks its options, enters the loop and calls
\* createBranch, which runs up to its first await: the create-branch request
BeforeAllStart(a) ==
  /\ pc[a] = "registered"
  /\ ValidRetryOptions([maxRetries |-> CreateMaxRetries,
                        baseDelayMs |-> CreateBaseDelayMs])
  /\ attempt' = [attempt EXCEPT ![a] = 1]
  /\ pc' = [pc EXCEPT ![a] = "creating"]
  /\ createRequest' =
       [createRequest EXCEPT ![a] = CreateRequest(options(a), now)]
  /\ branchNames' = [branchNames EXCEPT ![a] = Append(@, BranchName(a, 1))]
  /\ UNCHANGED <<branch, beforeResult, created, delays, createResponse,
                 uriRequest, DATABASE_URL, webSocketConstructor, service,
                 annotations, nextId, faults>>
  /\ UNCHANGED beforeAllFrame

\* The create-branch call succeeds: the service creates the branch as
\* requested, createBranch stores data.branch, picks role and database and
\* either throws or sends the getConnectionUri request
CreateBranchOk(a, shape) ==
  /\ pc[a] = "creating"
  /\ nextId < Len(BranchIds)
  /\ LET id == BranchIds[nextId + 1]
         o == options(a)
         request == createRequest[a]
         record == BranchRecord(id, request.projectId, now,
                                request.expires_at)
         message == ResolveError(o, shape)
     IN /\ nextId' = nextId + 1
        /\ service' = service \cup {record}
        /\ annotations' =
             annotations \cup {Annotation(id, request.annotation_value)}
        /\ created' = [created EXCEPT ![a] = @ \cup {id}]
        /\ branch' = [branch EXCEPT ![a] = record]
        /\ createResponse' = [createResponse EXCEPT ![a] = shape]
        /\ IF message # ""
           THEN /\ Catch(a, Err(message, NoStatus, attempt[a]))
                /\ UNCHANGED uriRequest
           ELSE /\ uriRequest' =
                     [uriRequest EXCEPT
                        ![a] = [projectId |-> Get(o, "projectId"),
                                branch_id |-> record.id,
                                role_name |-> TargetRole(o, shape.roles),
                                database_name |->
                                  TargetDatabase(o, shape.databases),
                                pooled |-> Pooled(o)]]
                /\ pc' = [pc EXCEPT ![a] = "gettingUri"]
                /\ UNCHANGED <<beforeResult, delays>>
  /\ UNCHANGED <<attempt, createRequest, branchNames, DATABASE_URL,
                 webSocketConstructor, faults>>
  /\ UNCHANGED beforeAllFrame

\* Mutant: the failure path resets the environment variable
CreateBranchFail_ClearsUrl(a, status) ==
  /\ pc[a] = "creating"
  /\ faults < MaxFaults
  /\ faults' = faults + 1
  /\ Catch(a, ApiError(status, attempt[a]))
  /\ DATABASE_URL' = EnvAssign(JsUndefined)
  /\ UNCHANGED <<attempt, branch, created, createRequest, branchNames,
                 createResponse, uriRequest, webSocketConstructor, service,
                 annotations, nextId>>
  /\ UNCHANGED beforeAllFrame

\* The create-branch call fails: no branch is created
CreateBranchFail(a, status) ==
  /\ pc[a] = "creating"
  /\ faults < MaxFaults
  /\ faults' = faults + 1
  /\ Catch(a, ApiError(status, attempt[a]))
  /\ UNCHANGED <<attempt, branch, created, createRequest, branchNames,
                 createResponse, uriRequest, DATABASE_URL,
                 webSocketConstructor, service, annotations, nextId>>
  /\ UNCHANGED beforeAllFrame

\* The create-branch call is answered 423 because the project is locked by
\* another operation, for as long as that operation lasts
CreateBranchLocked(a) ==
  /\ pc[a] = "creating"
  /\ Catch(a, ApiError(LockedStatus, attempt[a]))
  /\ UNCHANGED <<attempt, branch, created, createRequest, branchNames,
                 createResponse, uriRequest, DATABASE_URL,
                 webSocketConstructor, service, annotations, nextId, faults>>
  /\ UNCHANGED beforeAllFrame

\* Mutant: beforeAll leaves the variable alone while the test bodies of
\* another activation are under way
GetConnectionUriOk_Scoped(a) ==
  /\ pc[a] = "gettingUri"
  /\ LET r == uriRequest[a]
         uri == ConnectionUri(r.projectId, r.branch_id, r.role_name,
                              r.database_name, r.pooled)
     IN DATABASE_URL' =
          IF \E b \in Activations \ {a} : pc[b] = "tests" THEN DATABASE_URL
          ELSE EnvAssign(JsString(uri))
  /\ webSocketConstructor' =
       IF Truthy(Get(options(a), "autoCloseWebSockets"))
       THEN a ELSE webSocketConstructor
  /\ beforeResult' = [beforeResult EXCEPT ![a] = Fulfilled]
  /\ pc' = [pc EXCEPT ![a] = "tests"]
  /\ uriRequest' = [uriRequest EXCEPT ![a] = NoRequest]
  /\ createResponse' = [createResponse EXCEPT ![a] = NoCreateResponse]
  /\ UNCHANGED <<attempt, branch, created, delays, createRequest, branchNames,
                 service, annotations, nextId, faults>>
  /\ UNCHANGED beforeAllFrame

\* getConnectionUri answers: createBranch returns the URI, withRetry returns
\* it, beforeAll publishes it and installs the tracking constructor
GetConnectionUriOk(a) ==
  /\ pc[a] = "gettingUri"
  /\ LET r == uriRequest[a]
         uri == ConnectionUri(r.projectId, r.branch_id, r.role_name,
                              r.database_name, r.pooled)
     IN DATABASE_URL' = EnvAssign(JsString(uri))
  /\ webSocketConstructor' =
       IF Truthy(Get(options(a), "autoCloseWebSockets"))
       THEN a ELSE webSocketConstructor
  /\ beforeResult' = [beforeResult EXCEPT ![a] = Fulfilled]
  /\ pc' = [pc EXCEPT ![a] = "tests"]
  /\ uriRequest' = [uriRequest EXCEPT ![a] = NoRequest]
  /\ createResponse' = [createResponse EXCEPT ![a] = NoCreateResponse]
  /\ UNCHANGED <<attempt, branch, created, delays, createRequest, branchNames,
                 service, annotations, nextId, faults>>
  /\ UNCHANGED beforeAllFrame

\* getConnectionUri fails
GetConnectionUriFail(a, status) ==
  /\ pc[a] = "gettingUri"
  /\ faults < MaxFaults
  /\ faults' = faults + 1
  /\ Catch(a, ApiError(status, attempt[a]))
  /\ uriRequest' = [uriRequest EXCEPT ![a] = NoRequest]
  /\ createResponse' = [createResponse EXCEPT ![a] = NoCreateResponse]
  /\ UNCHANGED <<attempt, branch, created, createRequest, branchNames,
                 DATABASE_URL, webSocketConstructor, service, annotations,
                 nextId>>
  /\ UNCHANGED beforeAllFrame

\* Mutant: createBranch forgets the branch of the previous attempt when it
\* is called again
BackoffElapsed_DropsHandle(a) ==
  /\ pc[a] = "backoff"
  /\ attempt[a] + 1 <= CreateMaxRetries
  /\ attempt' = [attempt EXCEPT ![a] = @ + 1]
  /\ pc' = [pc EXCEPT ![a] = "creating"]
  /\ branch' = [branch EXCEPT ![a] = NoBranch]
  /\ createRequest' =
       [createRequest EXCEPT ![a] = CreateRequest(options(a), now)]
  /\ branchNames' =
       [branchNames EXCEPT ![a] = Append(@, BranchName(a, attempt[a] + 1))]
  /\ UNCHANGED <<beforeResult, created, delays, createResponse, uriRequest,
                 DATABASE_URL, webSocketConstructor, service, annotations,
                 nextId, faults>>
  /\ UNCHANGED beforeAllFrame

\* The backoff timer fires: `continue`, attempt++, createBranch is called
\* again and sends the next create-branch request
BackoffElapsed(a) ==
  /\ pc[a] = "backoff"
  /\ attempt[a] + 1 <= CreateMaxRetries
  /\ attempt' = [attempt EXCEPT ![a] = @ + 1]
  /\ pc' = [pc EXCEPT ![a] = "creating"]
  /\ createRequest' =
       [createRequest EXCEPT ![a] = CreateRequest(options(a), now)]
  /\ branchNames' =
       [branchNames EXCEPT ![a] = Append(@, BranchName(a, attempt[a] + 1))]
  /\ UNCHANGED <<branch, beforeResult, created, delays, createResponse,
                 uriRequest, DATABASE_URL, webSocketConstructor, service,
                 annotations, nextId, faults>>
  /\ UNCHANGED beforeAllFrame

----------------------------------------------------------------------------
(* The lifecycle: test bodies *)

\* The runner runs the suite's test bodies only after beforeAll has succeeded
TestsRunning(a) == pc[a] = "tests" /\ beforeResult[a].state = "fulfilled"

testFrame ==
  <<overrides, pc, attempt, branch, beforeResult, afterResult, created,
    deleteCall, delays, createRequest, branchNames, createResponse,
    uriRequest, DATABASE_URL, webSocketConstructor, listeners, lastUncaught,
    service, annotations, nextId, faults, configVars, retryVars, handlerVars,
    cleanupVars>>

\* A test body runs
RunTest(a) ==
  /\ TestsRunning(a)
  /\ testsRun[a] < MaxTests
  /\ testsRun' = [testsRun EXCEPT ![a] = @ + 1]
  /\ UNCHANGED <<neonSockets, sockets>>
  /\ UNCHANGED testFrame

\* Mutant: a connection is tracked by the activation whose test opens it
OpenWebSocket_OwnSet(a, url) ==
  /\ TestsRunning(a)
  /\ \E i \in 1..MaxSockets :
       /\ sockets[i].state = "unused"
       /\ \A j \in 1..(i - 1) : sockets[j].state # "unused"
       /\ sockets' = [sockets EXCEPT ![i] = [state |-> "OPEN", url |-> url]]
       /\ neonSockets' =
            IF webSocketConstructor # OriginalWebSocket /\ IsNeonUrl(url)
            THEN [neonSockets EXCEPT ![a] = @ \cup {i}]
            ELSE neonSockets
  /\ UNCHANGED testsRun
  /\ UNCHANGED testFrame

\* A driver constructs a WebSocket with neonConfig.webSocketConstructor:
\* the TrackingWebSocket of the activation that installed it last, or the
\* original constructor
OpenWebSocket(a, url) ==
  /\ TestsRunning(a)
  /\ \E i \in 1..MaxSockets :
       /\ sockets[i].state = "unused"
       /\ \A j \in 1..(i - 1) : sockets[j].state # "unused"
       /\ sockets' = [sockets EXCEPT ![i] = [state |-> "OPEN", url |-> url]]
       /\ neonSockets' =
            IF webSocketConstructor # OriginalWebSocket /\ IsNeonUrl(url)
            THEN [neonSockets EXCEPT ![webSocketConstructor] = @ \cup {i}]
            ELSE neonSockets
  /\ UNCHANGED testsRun
  /\ UNCHANGED testFrame

\* A test body closes a connection itself (pool.end())
TestClosesSocket(a, i) ==
  /\ TestsRunning(a)
  /\ sockets[i].state = "OPEN"
  /\ sockets' = [sockets EXCEPT ![i] = CloseSocket(@)]
  /\ UNCHANGED <<neonSockets, testsRun>>
  /\ UNCHANGED testFrame

\* The closing handshake of a socket completes: its close event
SocketClosed(i) ==
  /\ sockets[i].state = "CLOSING"
  /\ sockets' = [sockets EXCEPT ![i].state = "CLOSED"]
  /\ UNCHANGED <<neonSockets, testsRun>>
  /\ UNCHANGED testFrame

uncaughtFrame ==
  <<overrides, pc, attempt, branch, neonSockets, beforeResult, afterResult,
    created, deleteCall, delays, createRequest, branchNames, createResponse,
    uriRequest, testsRun, DATABASE_URL, webSocketConstructor, sockets,
    listeners, service, annotations, nextId, faults, configVars, retryVars,
    handlerVars, cleanupVars>>

\* The process emits 'uncaughtException': the handlers afterAll prepended
\* run first
UncaughtException(error) ==
  /\ lastUncaught' =
       [event |-> "uncaughtException", error |-> error,
        outcome |-> GuardOutcome(listeners, error)]
  /\ UNCHANGED uncaughtFrame

\* A promise is rejected with the error and nothing handles it: the process
\* emits 'unhandledRejection'. afterAll registers neonWsErrorHandler for
\* 'uncaughtException' only, so the handler is not among the listeners of
\* this event. Where other code listens to it (the test runner does) the
\* rejection goes there; where nothing does, Node raises it as an uncaught
\* exception (raised)
UnhandledRejection(error, raised) ==
  /\ lastUncaught' =
       [event |-> "unhandledRejection", error |-> error,
        outcome |-> IF raised THEN GuardOutcome(listeners, error)
                    ELSE "unguarded"]
  /\ UNCHANGED uncaughtFrame

----------------------------------------------------------------------------
(* The lifecycle: afterAll *)

afterAllFrame ==
  <<overrides, attempt, neonSockets, beforeResult, created, delays,
    createRequest, branchNames, createResponse, uriRequest, testsRun,
    webSocketConstructor, lastUncaught, nextId, configVars, retryVars,
    handlerVars, cleanupVars>>

\* Mutant: deletes whatever the option says
DeleteEnabled_Always(o) == TRUE

\* Mutant: deletes only when the option is set to true
DeleteEnabled_Truthy(o) == Truthy(Get(o, "deleteBranch"))

\* if (options.deleteBranch !== false)
DeleteEnabled(o) == Get(o, "deleteBranch") # "false"

\* Mutant: deleteBranch without its guard
HasBranch_Unchecked(b) == TRUE

\* deleteBranch: the negation of `!branch?.id`
HasBranch(b) == Truthy(b.id)

\* Tracked sockets that do not report closed
Unclosed(a, socks) == {i \in neonSockets[a] : socks[i].state # "CLOSED"}

\* afterAll runs once beforeAll has settled and the test bodies are over.
\* Everything up to the first await is one step: the assignment to
\* process.env, the listener, the close() calls, and deleteBranch up to its
\* delete-branch request
AfterAllStart(a) ==
  /\ pc[a] = "tests"
  /\ LET o == options(a)
         autoClose == Truthy(Get(o, "autoCloseWebSockets"))
         closed == [i \in 1..MaxSockets |->
                      IF autoClose /\ i \in neonSockets[a]
                      THEN CloseSocket(sockets[i]) ELSE sockets[i]]
     IN /\ DATABASE_URL' = EnvAssign(JsUndefined)
        /\ listeners' = IF autoClose THEN listeners + 1 ELSE listeners
        /\ sockets' = closed
        /\ IF DeleteEnabled(o)
           THEN IF ~HasBranch(branch[a])
                THEN /\ afterResult' =
                          [afterResult EXCEPT
                             ![a] = Rejected(Err("No branch to delete",
                                                 NoStatus, 0))]
                     /\ pc' = [pc EXCEPT ![a] = "finished"]
                     /\ UNCHANGED deleteCall
                ELSE /\ deleteCall' =
                          [deleteCall EXCEPT
                             ![a] = [issued |-> TRUE,
                                     projectId |-> Get(o, "projectId"),
                                     branchId |-> branch[a].id,
                                     unclosed |-> Unclosed(a, closed)]]
                     /\ pc' = [pc EXCEPT ![a] = "deleting"]
                     /\ UNCHANGED afterResult
           ELSE /\ afterResult' = [afterResult EXCEPT ![a] = Fulfilled]
                /\ pc' = [pc EXCEPT ![a] = "finished"]
                /\ UNCHANGED deleteCall
  /\ UNCHANGED <<branch, service, annotations, faults>>
  /\ UNCHANGED afterAllFrame

\* The delete-branch call succeeds: `branch = undefined`, afterAll resolves
DeleteBranchOk(a) ==
  /\ pc[a] = "deleting"
  /\ \E target \in service :
       /\ target.id = deleteCall[a].branchId
       /\ target.project_id = deleteCall[a].projectId
       /\ service' = service \ {target}
       /\ annotations' = {n \in annotations : n.id # target.id}
  /\ branch' = [branch EXCEPT ![a] = NoBranch]
  /\ afterResult' = [afterResult EXCEPT ![a] = Fulfilled]
  /\ pc' = [pc EXCEPT ![a] = "finished"]
  /\ UNCHANGED <<deleteCall, DATABASE_URL, sockets, listeners, faults>>
  /\ UNCHANGED afterAllFrame

\* Mutant: the handle is cleared whether or not the call succeeded
DeleteBranchFail_ClearsHandle(a, status) ==
  /\ pc[a] = "deleting"
  /\ faults < MaxFaults
  /\ faults' = faults + 1
  /\ afterResult' = [afterResult EXCEPT ![a] = Rejected(ApiError(status, 0))]
  /\ pc' = [pc EXCEPT ![a] = "finished"]
  /\ branch' = [branch EXCEPT ![a] = NoBranch]
  /\ UNCHANGED <<deleteCall, DATABASE_URL, sockets, listeners, service,
                 annotations>>
  /\ UNCHANGED afterAllFrame

\* The delete-branch call fails: deleteBranch rejects before it clears
\* `branch`, and afterAll rejects with the same error
DeleteBranchFail(a, status) ==
  /\ pc[a] = "deleting"
  /\ faults < MaxFaults
  /\ faults' = faults + 1
  /\ afterResult' = [afterResult EXCEPT ![a] = Rejected(ApiError(status, 0))]
  /\ pc' = [pc EXCEPT ![a] = "finished"]
  /\ UNCHANGED <<branch, deleteCall, DATABASE_URL, sockets, listeners,
                 service, annotations>>
  /\ UNCHANGED afterAllFrame

----------------------------------------------------------------------------
(* The lifecycle: next-state relations *)

\* Suites whose test bodies open no WebSocket, against an API that can fail
Next ==
  \/ \E a \in Activations : BeforeAllStart(a)
  \/ \E a \in Activations, shape \in ResponseShapes : CreateBranchOk(a, shape)
  \/ \E a \in Activations, st \in FailureStatuses : CreateBranchFail(a, st)
  \/ \E a \in Activations : GetConnectionUriOk(a)
  \/ \E a \in Activations, st \in FailureStatuses : GetConnectionUriFail(a, st)
  \/ \E a \in Activations : BackoffElapsed(a)
  \/ \E a \in Activations : RunTest(a)
  \/ \E a \in Activations : AfterAllStart(a)
  \/ \E a \in Activations : DeleteBranchOk(a)
  \/ \E a \in Activations, st \in FailureStatuses : DeleteBranchFail(a, st)

\* Suites whose test bodies open WebSockets; of the API calls only the
\* delete-branch call fails
NextDrain ==
  \/ \E a \in Activations : BeforeAllStart(a)
  \/ \E a \in Activations, shape \in ResponseShapes : CreateBranchOk(a, shape)
  \/ \E a \in Activations : GetConnectionUriOk(a)
  \/ \E a \in Activations, url \in SocketUrls : OpenWebSocket(a, url)
  \/ \E a \in Activations, i \in 1..MaxSockets : TestClosesSocket(a, i)
  \/ \E i \in 1..MaxSockets : SocketClosed(i)
  \/ \E a \in Activations : AfterAllStart(a)
  \/ \E a \in Activations : DeleteBranchOk(a)
  \/ \E a \in Activations, st \in FailureStatuses : DeleteBranchFail(a, st)

\* Suites during which uncaught exceptions are raised in the process; of the
\* API calls only the delete-branch call fails
NextGuard ==
  \/ \E a \in Activations : BeforeAllStart(a)
  \/ \E a \in Activations, shape \in ResponseShapes : CreateBranchOk(a, shape)
  \/ \E a \in Activations : GetConnectionUriOk(a)
  \/ \E a \in Activations : RunTest(a)
  \/ \E error \in UncaughtErrors : UncaughtException(error)
  \/ \E error \in UncaughtErrors, raised \in BOOLEAN :
       UnhandledRejection(error, raised)
  \/ \E a \in Activations : AfterAllStart(a)
  \/ \E a \in Activations : DeleteBranchOk(a)
  \/ \E a \in Activations, st \in FailureStatuses : DeleteBranchFail(a, st)

\* Suites on a project that stays locked for any length of time, so that
\* create-branch calls are answered 423 up to the last attempt
NextLocked ==
  \/ \E a \in Activations : BeforeAllStart(a)
  \/ \E a \in Activations, shape \in ResponseShapes : CreateBranchOk(a, shape)
  \/ \E a \in Activations : CreateBranchLocked(a)
  \/ \E a \in Activations, st \in FailureStatuses : CreateBranchFail(a, st)
  \/ \E a \in Activations : GetConnectionUriOk(a)
  \/ \E a \in Activations : BackoffElapsed(a)
  \/ \E a \in Activations : AfterAllStart(a)
  \/ \E a \in Activations : DeleteBranchOk(a)

----------------------------------------------------------------------------
(* Construction: makeNeonTesting(factoryOptions), neonTesting(overrides) *)

\* Factory options that set every key
FullFactoryOptions ==
  [projectId |-> "p1", parentBranchId |-> "br-main", schemaOnly |-> "true",
   endpoint |-> "direct", deleteBranch |-> "false",
   autoCloseWebSockets |-> "true", expiresIn |-> "1800",
   roleName |-> "app_role", databaseName |-> "appdb"]

\* The expiresIn values the tests pass, and the ends of the valid range
ExpiresInChoices ==
  {"600.5", "0", "-10", "2592001", "null", "1", "600", "2592000"}

\* The objects makeNeonTesting is called with
FactoryChoices ==
  {ExampleFactoryOptions, FullFactoryOptions}
    \cup {[ExampleFactoryOptions EXCEPT !["expiresIn"] = v] :
            v \in ExpiresInChoices \ {"600"}}

\* An override of each key
OverrideValues ==
  [projectId |-> "p2", parentBranchId |-> "br-dev", schemaOnly |-> "false",
   endpoint |-> "pooler", deleteBranch |-> "true",
   autoCloseWebSockets |-> "false", expiresIn |-> "600",
   roleName |-> "neondb_owner", databaseName |-> "neondb"]

\* The objects neonTesting is called with: nothing, one key, a key that is
\* present with the value undefined
ConfigOverrideChoices ==
  {NoOverrides}
    \cup {[NoOverrides EXCEPT ![k] = OverrideValues[k]] : k \in OptionKeys}
    \cup {[NoOverrides EXCEPT !["expiresIn"] = v] : v \in ExpiresInChoices}
    \cup {[NoOverrides EXCEPT ![k] = Undef] :
            k \in {"expiresIn", "deleteBranch"}}

\* The describe blocks of a file are collected, and their hooks run, in the
\* order of the file
Earlier(a) == IF a = "a1" THEN {} ELSE {"a1"}

constructionFrame ==
  <<factoryOptions, now, VITEST, setupPc, setupWarned, overrides, attempt,
    branch, neonSockets, beforeResult, afterResult, created, deleteCall,
    delays, createRequest,
    branchNames, createResponse, uriRequest, testsRun, DATABASE_URL,
    webSocketConstructor, sockets, listeners, lastUncaught, service,
    annotations, nextId, faults, retryVars, handlerVars, cleanupVars>>

\* makeNeonTesting(factoryOptions): validates expiresIn, then returns the
\* neonTesting function
MakeNeonTesting ==
  /\ makeResult = NotCalled
  /\ LET message ==
           validateExpiresIn(ExpiresInValue(Get(factoryOptions, "expiresIn")))
     IN makeResult' = IF message = <<>> THEN Returned ELSE Threw(message)
  /\ UNCHANGED <<callResult, pc>>
  /\ UNCHANGED constructionFrame

\* if (overrides?.expiresIn !== undefined) validateExpiresIn(..)
OverrideError(o) ==
  IF Get(o, "expiresIn") # Undef
  THEN validateExpiresIn(ExpiresInValue(Get(o, "expiresIn")))
  ELSE <<>>

\* Mutant: registers the hooks before it validates the override
NeonTesting_RegistersFirst(a) ==
  /\ makeResult = Returned
  /\ callResult[a] = NotCalled
  /\ \A b \in Earlier(a) : callResult[b] # NotCalled
  /\ callResult' =
       [callResult EXCEPT
          ![a] = IF OverrideError(overrides[a]) = <<>> THEN Returned
                 ELSE Threw(OverrideError(overrides[a]))]
  /\ pc' = [pc EXCEPT ![a] = "registered"]
  /\ UNCHANGED makeResult
  /\ UNCHANGED constructionFrame

\* neonTesting(overrides): validates the override, merges the options into a
\* new object and registers beforeAll and afterAll
NeonTesting(a) ==
  /\ makeResult = Returned
  /\ callResult[a] = NotCalled
  /\ \A b \in Earlier(a) : callResult[b] # NotCalled
  /\ IF OverrideError(overrides[a]) = <<>>
     THEN /\ callResult' = [callResult EXCEPT ![a] = Returned]
          /\ pc' = [pc EXCEPT ![a] = "registered"]
     ELSE /\ callResult' =
               [callResult EXCEPT ![a] = Threw(OverrideError(overrides[a]))]
          /\ pc' = [pc EXCEPT ![a] = "threw"]
  /\ UNCHANGED makeResult
  /\ UNCHANGED constructionFrame

\* The hooks of an activation run when every describe block has been
\* collected and the suites before it are over
InTurn(a) ==
  /\ \A b \in Activations : callResult[b] # NotCalled
  /\ \A b \in Earlier(a) : pc[b] \in {"finished", "threw"}

\* Time passes
TickMs == 4500

Tick ==
  /\ MsBetween(now, Instant(0, 0)) < MaxTicks * TickMs
  /\ now' = PlusMs(now, TickMs)
  /\ UNCHANGED <<factoryOptions, makeResult, callResult, VITEST, setupPc,
                 setupWarned, lifecycleVars, retryVars, handlerVars,
                 cleanupVars>>

\* The service deletes a branch whose expiry has passed
BranchExpires(id) ==
  /\ \E b \in service :
       /\ b.id = id
       /\ b.expires_at.t = "date"
       /\ NotAfter(b.expires_at, now)
       /\ service' = service \ {b}
       /\ annotations' = {n \in annotations : n.id # id}
  /\ UNCHANGED <<overrides, pc, attempt, branch, neonSockets, beforeResult,
                 afterResult, created, deleteCall, delays, createRequest,
                 branchNames, createResponse, uriRequest, testsRun,
                 DATABASE_URL, webSocketConstructor, sockets, listeners,
                 lastUncaught, nextId, faults, configVars, retryVars,
                 handlerVars, cleanupVars>>

\* The status of a delete-branch call for a branch that is gone
NotFoundStatus == 404

\* The delete-branch call finds no such branch in the project
DeleteBranchNotFound(a) ==
  /\ pc[a] = "deleting"
  /\ ~\E target \in service :
        /\ target.id = deleteCall[a].branchId
        /\ target.project_id = deleteCall[a].projectId
  /\ afterResult' =
       [afterResult EXCEPT ![a] = Rejected(ApiError(NotFoundStatus, 0))]
  /\ pc' = [pc EXCEPT ![a] = "finished"]
  /\ UNCHANGED <<branch, deleteCall, DATABASE_URL, sockets, listeners,
                 service, annotations, faults>>
  /\ UNCHANGED afterAllFrame

\* The suites of one file, one after the other, against an API that does not
\* fail, while time passes
NextConfig ==
  \/ MakeNeonTesting
  \/ \E a \in Activations : NeonTesting(a)
  \/ \E a \in Activations : InTurn(a) /\ BeforeAllStart(a)
  \/ \E a \in Activations, shape \in ResponseShapes : CreateBranchOk(a, shape)
  \/ \E a \in Activations : GetConnectionUriOk(a)
  \/ \E a \in Activations : AfterAllStart(a)
  \/ \E a \in Activations : DeleteBranchOk(a)
  \/ \E a \in Activations : DeleteBranchNotFound(a)
  \/ \E id \in Range(BranchIds) : BranchExpires(id)
  \/ Tick

----------------------------------------------------------------------------
(* The setup file vitest-setup, which the Vite plugin adds to setupFiles *)

\* JavaScript truthiness of the value read from an environment variable
EnvTruthy(v) == v.t = "string" /\ v.s # <<>>

\* What process.env.VITEST can hold: nothing, Vitest's value, an empty string
VitestChoices == {EnvUnset, VitestValue, JsString(<<>>)}

\* A DATABASE_URL that the environment holds before the tests run
ExistingUrl ==
  JsString(<<"postgresql://", "owner", "@", "br-main", ".neon.tech/",
             "neondb", "?sslmode=require">>)

\* Mutant: the variable is assigned undefined instead of being deleted
VitestSetup_Assigns ==
  /\ setupPc = "pending"
  /\ setupPc' = "done"
  /\ setupWarned' = (EnvTruthy(VITEST) /\ EnvTruthy(DATABASE_URL))
  /\ DATABASE_URL' =
       IF EnvTruthy(VITEST) THEN EnvAssign(JsUndefined) ELSE DATABASE_URL
  /\ UNCHANGED <<factoryOptions, makeResult, callResult, now, VITEST>>
  /\ UNCHANGED <<overrides, pc, attempt, branch, neonSockets, beforeResult,
                 afterResult, created, deleteCall, delays, createRequest,
                 branchNames, createResponse, uriRequest, testsRun,
                 webSocketConstructor, sockets, listeners, lastUncaught,
                 service, annotations, nextId, faults>>
  /\ UNCHANGED <<retryVars, handlerVars, cleanupVars>>

\* The setup file runs: if (isVitest), it logs that it clears an existing
\* DATABASE_URL (vitest-setup.ts logs only when NEON_TESTING_DEBUG is "true",
\* which is taken to be the case) and then deletes the variable
VitestSetup ==
  /\ setupPc = "pending"
  /\ setupPc' = "done"
  /\ setupWarned' = (EnvTruthy(VITEST) /\ EnvTruthy(DATABASE_URL))
  /\ DATABASE_URL' = IF EnvTruthy(VITEST) THEN EnvUnset ELSE DATABASE_URL
  /\ UNCHANGED <<factoryOptions, makeResult, callResult, now, VITEST>>
  /\ UNCHANGED <<overrides, pc, attempt, branch, neonSockets, beforeResult,
                 afterResult, created, deleteCall, delays, createRequest,
                 branchNames, createResponse, uriRequest, testsRun,
                 webSocketConstructor, sockets, listeners, lastUncaught,
                 service, annotations, nextId, faults>>
  /\ UNCHANGED <<retryVars, handlerVars, cleanupVars>>

\* Setup files run before the test file is collected, hence before its hooks
AfterSetup(a) == setupPc = "done" /\ InTurn(a)

\* The setup file, then the suites of one file against an API that does not
\* fail
NextSetup ==
  \/ VitestSetup
  \/ \E a \in Activations : AfterSetup(a) /\ BeforeAllStart(a)
  \/ \E a \in Activations, shape \in ResponseShapes : CreateBranchOk(a, shape)
  \/ \E a \in Activations : GetConnectionUriOk(a)
  \/ \E a \in Activations : AfterAllStart(a)
  \/ \E a \in Activations : DeleteBranchOk(a)

----------------------------------------------------------------------------
(* TrackingWebSocket: the connections that test bodies open *)

\* The host of a connection URI, as the tokens between "@" and the database
UriHost(uri) == SubSeq(uri, 4, Len(uri) - 2)

\* The URL under which the driver opens a WebSocket to a host
WsUrl(host) == <<"wss://">> \o host \o <<"v2">>

\* The host of another branch of the service, e.g. the parent branch
OtherNeonHost == <<"br-main", ".neon.tech/">>

\* A URL of a host that is not of the service
OtherUrl == <<"wss://", "example.com/", "socket">>

\* The URLs a test body connects to: the host of DATABASE_URL, if it holds a
\* connection URI, another host of the service, and an unrelated host
UrlsOpened ==
  {WsUrl(OtherNeonHost), OtherUrl}
    \cup {WsUrl(UriHost(DATABASE_URL.s)) : x \in {u \in {DATABASE_URL} :
                                                    Len(u.s) > 4}}

\* The suites of one file, one after the other, whose test bodies open
\* WebSockets, against an API that does not fail
NextTrack ==
  \/ \E a \in Activations : InTurn(a) /\ BeforeAllStart(a)
  \/ \E a \in Activations, shape \in ResponseShapes : CreateBranchOk(a, shape)
  \/ \E a \in Activations : GetConnectionUriOk(a)
  \/ \E a \in Activations, url \in UrlsOpened : OpenWebSocket(a, url)
  \/ \E i \in 1..MaxSockets : SocketClosed(i)
  \/ \E a \in Activations : AfterAllStart(a)
  \/ \E a \in Activations : DeleteBranchOk(a)

----------------------------------------------------------------------------
(* createBranch: the choice of role and database *)

\* data.roles of the create-branch responses: no role, the owner role alone,
\* the owner role listed second, and a list without it
RoleLists ==
  { <<>>, <<"neondb_owner">>, <<"app_role", "neondb_owner">>,
    <<"app_role", "reader">> }

\* data.databases, likewise
DatabaseLists ==
  { <<>>, <<"neondb">>, <<"appdb", "neondb">>, <<"appdb", "logs">> }

ResolveShapes ==
  { [roles |-> r, databases |-> d] : r \in RoleLists, d \in DatabaseLists }

\* neonTesting({ roleName, databaseName }): names the lists may hold, and
\* names they never hold
ResolveOverrideChoices ==
  { [NoOverrides EXCEPT !["roleName"] = r, !["databaseName"] = d] :
      r \in {Missing, "app_role", "ghost"},
      d \in {Missing, "appdb", "ghostdb"} }

\* The suites of one file, one after the other, against an API that does not
\* fail and projects with any roles and databases
NextResolve ==
  \/ \E a \in Activations : InTurn(a) /\ BeforeAllStart(a)
  \/ \E a \in Activations, shape \in ResolveShapes : CreateBranchOk(a, shape)
  \/ \E a \in Activations : GetConnectionUriOk(a)
  \/ \E a \in Activations : AfterAllStart(a)
  \/ \E a \in Activations : DeleteBranchOk(a)

----------------------------------------------------------------------------
(* withRetry on its own: withRetry(fn, options) with an arbitrary fn *)

\* The options withRetry is called with; 0 stands for the invalid values
RetryPolicies ==
  { [maxRetries |-> m, baseDelayMs |-> b] :
      m \in (0..MaxPolicyRetries) \cup {CreateMaxRetries},
      b \in {0, 1, CreateBaseDelayMs} }

\* One invocation of fn: it resolved, or it rejected with `error`
FnResolved == [ok |-> TRUE, error |-> NoError]

FnRejected(error) == [ok |-> FALSE, error |-> error]

IdleRetry ==
  /\ rOptions = [maxRetries |-> CreateMaxRetries,
                 baseDelayMs |-> CreateBaseDelayMs]
  /\ rPc = "idle"
  /\ rAttempt = 0
  /\ rCalls = <<>>
  /\ rDelays = <<>>
  /\ rResult = Pending

InitRetry ==
  /\ rOptions \in RetryPolicies
  /\ rPc = "start"
  /\ rAttempt = 0
  /\ rCalls = <<>>
  /\ rDelays = <<>>
  /\ rResult = Pending

\* withRetry is called: it checks its options, enters the loop with
\* attempt = 1 and invokes fn
RetryStart ==
  /\ rPc = "start"
  /\ IF rOptions.maxRetries <= 0
     THEN /\ rResult' = Rejected(Err("maxRetries must be a positive integer",
                                     NoStatus, 0))
          /\ rPc' = "done"
          /\ UNCHANGED rAttempt
     ELSE IF rOptions.baseDelayMs <= 0
     THEN /\ rResult' = Rejected(Err("baseDelayMs must be a positive integer",
                                     NoStatus, 0))
          /\ rPc' = "done"
          /\ UNCHANGED rAttempt
     ELSE /\ rAttempt' = 1
          /\ rPc' = "calling"
          /\ UNCHANGED rResult
  /\ UNCHANGED <<rOptions, rCalls, rDelays, configVars, lifecycleVars,
                 handlerVars, cleanupVars>>

\* fn resolves: `return await fn()`
RetryFnResolves ==
  /\ rPc = "calling"
  /\ rCalls' = Append(rCalls, FnResolved)
  /\ rResult' = Fulfilled
  /\ rPc' = "done"
  /\ UNCHANGED <<rOptions, rAttempt, rDelays, configVars, lifecycleVars,
                 handlerVars, cleanupVars>>

\* Mutant: the catch clause does not await the timer before `continue`
RetryFnRejects_NoWait(status) ==
  /\ rPc = "calling"
  /\ LET error == ApiError(status, rAttempt)
     IN /\ rCalls' = Append(rCalls, FnRejected(error))
        /\ IF ShouldRetry(status, rAttempt, rOptions.maxRetries)
           THEN /\ rAttempt' = rAttempt + 1
                /\ UNCHANGED <<rPc, rResult>>
           ELSE /\ rResult' = Rejected(error)
                /\ rPc' = "done"
                /\ UNCHANGED rAttempt
  /\ UNCHANGED <<rOptions, rDelays, configVars, lifecycleVars, handlerVars,
                 cleanupVars>>

\* fn rejects: the catch clause
RetryFnRejects(status) ==
  /\ rPc = "calling"
  /\ LET error == ApiError(status, rAttempt)
     IN /\ rCalls' = Append(rCalls, FnRejected(error))
        /\ IF ShouldRetry(status, rAttempt, rOptions.maxRetries)
           THEN /\ rDelays' = Append(rDelays,
                                     BackoffDelay(rOptions.baseDelayMs,
                                                  rAttempt))
                /\ rPc' = "waiting"
                /\ UNCHANGED rResult
           ELSE /\ rResult' = Rejected(error)
                /\ rPc' = "done"
                /\ UNCHANGED rDelays
  /\ UNCHANGED <<rOptions, rAttempt, configVars, lifecycleVars, handlerVars,
                 cleanupVars>>

\* The timer fires: `continue`, attempt++, the loop test, the next call of fn
RetryTimerFires ==
  /\ rPc = "waiting"
  /\ rAttempt' = rAttempt + 1
  /\ IF rAttempt + 1 <= rOptions.maxRetries
     THEN /\ rPc' = "calling"
          /\ UNCHANGED rResult
     ELSE /\ rResult' = Rejected(Err("apiCallWithRetry reached unexpected end",
                                     NoStatus, 0))
          /\ rPc' = "done"
  /\ UNCHANGED <<rOptions, rCalls, rDelays, configVars, lifecycleVars,
                 handlerVars, cleanupVars>>

NextRetry ==
  \/ RetryStart
  \/ RetryFnResolves
  \/ \E st \in FailureStatuses : RetryFnRejects(st)
  \/ RetryTimerFires

----------------------------------------------------------------------------
(* neonWsErrorHandler on its own *)

MessageTokens == {"Connection", "terminated", "unexpectedly", "Error:"}

Messages ==
  UNION { [1..n -> MessageTokens] : n \in 0..MaxMessageLen }

\* error.stack: absent, or a stack with frames of one package
Stacks ==
  { JsUndefined,
    JsString(<<"at", "@neondatabase/serverless">>),
    JsString(<<"at", "pg">>) }

HandlerErrors ==
  { [message |-> m, stack |-> st] : m \in Messages, st \in Stacks }

IdleHandler ==
  /\ hError = NoUncaught.error
  /\ hOutcome = "idle"

InitHandler ==
  /\ hError \in HandlerErrors
  /\ hOutcome = "none"

\* The process calls the listener with the error
CallHandler ==
  /\ hOutcome = "none"
  /\ hOutcome' = neonWsErrorHandler(hError)
  /\ UNCHANGED <<hError, configVars, lifecycleVars, retryVars, cleanupVars>>

NextHandler == CallHandler

----------------------------------------------------------------------------
(* deleteAllTestBranches *)

\* Branches that exist in the projects before any suite runs, in the order
\* in which the service lists them; the branches that hooks create follow
ExistingIds == <<"br-main", "br-dev", "br-old">>

ListingOrder == ExistingIds \o BranchIds

\* A branch of another project, marked as a test branch
OtherProjectBranch == "br-other"

\* What the annotation map can hold for a branch: no entry, an entry
\* without the key, or the key with some value
AnnotationChoices ==
  { [present |-> FALSE, value |-> {}],
    [present |-> TRUE, value |-> {}],
    [present |-> TRUE, value |-> {<<"team", "true">>}],
    [present |-> TRUE, value |-> {<<"integration-test", "false">>}],
    [present |-> TRUE, value |-> TestAnnotation] }

\* data of a listProjectBranches response: data.branches, data.annotations
NoListing == [branches |-> <<>>, annotations |-> {}]

InProject(b, projectId) == b.project_id = projectId

\* The response of listProjectBranches({ projectId })
Listing(branches, notes, projectId) ==
  LET ids == SelectSeq(ListingOrder,
                       LAMBDA id : \E b \in branches :
                                     b.id = id /\ InProject(b, projectId))
  IN [branches |-> [i \in 1..Len(ids) |->
                      CHOOSE b \in branches : b.id = ids[i]],
      annotations |-> {n \in notes : n.id \in Range(ids)}]

\* value[key] of an annotation value
Lookup(value, key) ==
  IF \E p \in value : p[1] = key
  THEN (CHOOSE p \in value : p[1] = key)[2]
  ELSE Undef

\* Mutant: any branch that has an annotation entry counts
IsTestBranch_AnyEntry(data, id) == \E n \in data.annotations : n.id = id

\* data.annotations[branch.id]?.value["integration-test"] === "true"
IsTestBranch(data, id) ==
  \E n \in data.annotations :
    n.id = id /\ Lookup(n.value, "integration-test") = "true"

\* The positions from `from` on whose branch the loop deletes
Marked(data, from) ==
  {i \in from..Len(data.branches) : IsTestBranch(data, data.branches[i].id)}

Min(S) == CHOOSE i \in S : \A j \in S : i <= j

\* The for-of loop from position `from` up to its next await: the
\* delete-branch call for the next test branch, or the end of the loop
CleanupLoop(data, from) ==
  IF Marked(data, from) # {}
  THEN /\ cIndex' = Min(Marked(data, from))
       /\ cDeletes' =
            [cDeletes EXCEPT
               ![cCalls] =
                 Append(@, [projectId |-> Get(factoryOptions, "projectId"),
                            branchId |->
                              data.branches[Min(Marked(data, from))].id])]
       /\ cPc' = "deleting"
       /\ UNCHANGED cResult
  ELSE /\ cIndex' = Len(data.branches) + 1
       /\ cPc' = "done"
       /\ cResult' = [cResult EXCEPT ![cCalls] = Fulfilled]
       /\ UNCHANGED cDeletes

cleanupFrame == <<configVars, retryVars, handlerVars>>

\* No call of deleteAllTestBranches is in progress
IdleCleanup ==
  /\ cPc = "idle"
  /\ cCalls = 0
  /\ cListing = NoListing
  /\ cIndex = 0
  /\ cDeletes = <<>>
  /\ cResult = <<>>

\* deleteAllTestBranches() is called: the listProjectBranches request
CleanupStart ==
  /\ cPc \in {"idle", "done"}
  /\ cCalls < MaxCleanupCalls
  /\ cCalls' = cCalls + 1
  /\ cPc' = "listing"
  /\ cListing' = NoListing
  /\ cIndex' = 0
  /\ cDeletes' = Append(cDeletes, <<>>)
  /\ cResult' = Append(cResult, Pending)
  /\ UNCHANGED <<lifecycleVars, cleanupFrame>>

\* The listing arrives and the loop starts
ListBranchesOk ==
  /\ cPc = "listing"
  /\ LET data == Listing(service, annotations,
                         Get(factoryOptions, "projectId"))
     IN /\ cListing' = data
        /\ CleanupLoop(data, 1)
  /\ UNCHANGED <<cCalls, lifecycleVars, cleanupFrame>>

\* listProjectBranches fails: deleteAllTestBranches rejects
ListBranchesFail(status) ==
  /\ cPc = "listing"
  /\ faults < MaxFaults
  /\ faults' = faults + 1
  /\ cResult' = [cResult EXCEPT ![cCalls] = Rejected(ApiError(status, 0))]
  /\ cPc' = "done"
  /\ UNCHANGED <<cCalls, cListing, cIndex, cDeletes, cleanupFrame>>
  /\ UNCHANGED <<overrides, pc, attempt, branch, neonSockets, beforeResult,
                 afterResult, created, deleteCall, delays, createRequest,
                 branchNames, createResponse, uriRequest, testsRun,
                 DATABASE_URL, webSocketConstructor, sockets, listeners,
                 lastUncaught, service, annotations, nextId>>

\* Mutant: the service answers the delete-branch call but keeps the branch
CleanupDeleteOk_BranchKept ==
  /\ cPc = "deleting"
  /\ CleanupLoop(cListing, cIndex + 1)
  /\ UNCHANGED <<cCalls, cListing, cleanupFrame, lifecycleVars>>

\* The delete-branch call of the loop succeeds and the loop goes on
CleanupDeleteOk ==
  /\ cPc = "deleting"
  /\ LET call == cDeletes[cCalls][Len(cDeletes[cCalls])]
     IN \E target \in service :
          /\ target.id = call.branchId
          /\ target.project_id = call.projectId
          /\ service' = service \ {target}
          /\ annotations' = {n \in annotations : n.id # target.id}
  /\ CleanupLoop(cListing, cIndex + 1)
  /\ UNCHANGED <<cCalls, cListing, cleanupFrame>>
  /\ UNCHANGED <<overrides, pc, attempt, branch, neonSockets, beforeResult,
                 afterResult, created, deleteCall, delays, createRequest,
                 branchNames, createResponse, uriRequest, testsRun,
                 DATABASE_URL, webSocketConstructor, sockets, listeners,
                 lastUncaught, nextId, faults>>

\* Mutant: the loop catches the error of a delete-branch call and goes on
CleanupDeleteFail_GoesOn(status) ==
  /\ cPc = "deleting"
  /\ faults < MaxFaults
  /\ faults' = faults + 1
  /\ CleanupLoop(cListing, cIndex + 1)
  /\ UNCHANGED <<cCalls, cListing, cleanupFrame>>
  /\ UNCHANGED <<overrides, pc, attempt, branch, neonSockets, beforeResult,
                 afterResult, created, deleteCall, delays, createRequest,
                 branchNames, createResponse, uriRequest, testsRun,
                 DATABASE_URL, webSocketConstructor, sockets, listeners,
                 lastUncaught, service, annotations, nextId>>

\* The delete-branch call of the loop fails: the error leaves the loop and
\* deleteAllTestBranches rejects
CleanupDeleteFail(status) ==
  /\ cPc = "deleting"
  /\ faults < MaxFaults
  /\ faults' = faults + 1
  /\ cResult' = [cResult EXCEPT ![cCalls] = Rejected(ApiError(status, 0))]
  /\ cPc' = "done"
  /\ UNCHANGED <<cCalls, cListing, cIndex, cDeletes, cleanupFrame>>
  /\ UNCHANGED <<overrides, pc, attempt, branch, neonSockets, beforeResult,
                 afterResult, created, deleteCall, delays, createRequest,
                 branchNames, createResponse, uriRequest, testsRun,
                 DATABASE_URL, webSocketConstructor, sockets, listeners,
                 lastUncaught, service, annotations, nextId>>

\* The delete-branch call of the loop finds no such branch in the project:
\* the error leaves the loop and deleteAllTestBranches rejects
CleanupDeleteNotFound ==
  /\ cPc = "deleting"
  /\ LET call == cDeletes[cCalls][Len(cDeletes[cCalls])]
     IN ~\E target \in service :
           /\ target.id = call.branchId
           /\ target.project_id = call.projectId
  /\ cResult' =
       [cResult EXCEPT ![cCalls] = Rejected(ApiError(NotFoundStatus, 0))]
  /\ cPc' = "done"
  /\ UNCHANGED <<cCalls, cListing, cIndex, cDeletes, cleanupFrame,
                 lifecycleVars>>

NextCleanup ==
  \/ CleanupStart
  \/ ListBranchesOk
  \/ \E st \in FailureStatuses : ListBranchesFail(st)
  \/ CleanupDeleteOk
  \/ \E st \in FailureStatuses : CleanupDeleteFail(st)

\* The branches and annotations the projects hold when cleanup is called
CleanupWorlds == [1..Len(ExistingIds) -> AnnotationChoices]

WorldBranches ==
  {BranchRecord(ExistingIds[i], "p1", Instant(0, 0), NoTimestamp) :
     i \in 1..Len(ExistingIds)}
    \cup {BranchRecord(OtherProjectBranch, "p2", Instant(0, 0), NoTimestamp)}

WorldAnnotations(w) ==
  {Annotation(ExistingIds[i], w[i].value) :
     i \in {j \in 1..Len(ExistingIds) : w[j].present}}
    \cup {Annotation(OtherProjectBranch, TestAnnotation)}

\* Suites that leave branches behind
LeftoverOverrideChoices ==
  { NoOverrides,
    [NoOverrides EXCEPT !["deleteBranch"] = "false"],
    [NoOverrides EXCEPT !["deleteBranch"] = "false", !["projectId"] = "p2"] }

\* Suites run, and deleteAllTestBranches is called, in any order and at the
\* same time; of the API calls the delete-branch calls fail
NextLeftover ==
  \/ \E a \in Activations : BeforeAllStart(a)
  \/ \E a \in Activations, shape \in ResponseShapes : CreateBranchOk(a, shape)
  \/ \E a \in Activations : GetConnectionUriOk(a)
  \/ \E a \in Activations : AfterAllStart(a)
  \/ \E a \in Activations : DeleteBranchOk(a)
  \/ \E a \in Activations : DeleteBranchFail(a, NoStatus)
  \/ \E a \in Activations : DeleteBranchNotFound(a)
  \/ CleanupStart
  \/ ListBranchesOk
  \/ CleanupDeleteOk
  \/ CleanupDeleteFail(NoStatus)
  \/ CleanupDeleteNotFound

----------------------------------------------------------------------------
(* Specifications *)

IdleLifecycle ==
  /\ InitLifecycle
  /\ overrides = [a \in Activations |-> NoOverrides]

Init ==
  /\ InitLifecycle /\ IdleRetry /\ IdleHandler /\ IdleCleanup
  /\ overrides \in [Activations -> OverrideChoices]

Spec == Init /\ [][Next]_vars

InitDrain ==
  /\ InitLifecycle /\ IdleRetry /\ IdleHandler /\ IdleCleanup
  /\ overrides \in [Activations -> DrainOverrideChoices]

SpecDrain == InitDrain /\ [][NextDrain]_vars

SpecGuard == InitDrain /\ [][NextGuard]_vars

SpecLocked == InitDrain /\ [][NextLocked]_vars

InitWithRetry == IdleLifecycle /\ InitRetry /\ IdleHandler /\ IdleCleanup

SpecRetry == InitWithRetry /\ [][NextRetry]_vars

\* withRetry with an fn whose promises settle, on an event loop whose timers
\* fire
SpecRetryLive == InitWithRetry /\ [][NextRetry]_vars /\ WF_vars(NextRetry)

InitErrorHandler ==
  IdleLifecycle /\ IdleRetry /\ InitHandler /\ IdleCleanup

SpecHandler == InitErrorHandler /\ [][NextHandler]_vars

SpecTrack == InitDrain /\ [][NextTrack]_vars

\* The first suite names a role, a database, both or neither
InitResolve ==
  /\ factoryOptions = ExampleFactoryOptions
  /\ makeResult = Returned
  /\ callResult = [a \in Activations |-> Returned]
  /\ overrides \in [Activations -> ResolveOverrideChoices]
  /\ overrides["a2"] = NoOverrides
  /\ pc = [a \in Activations |-> "registered"]
  /\ FreshProcess /\ EmptyService
  /\ IdleRetry /\ IdleHandler /\ IdleCleanup

SpecResolve == InitResolve /\ [][NextResolve]_vars

\* The hooks are registered and no branch exists yet
InitLeftover ==
  /\ factoryOptions = ExampleFactoryOptions
  /\ makeResult = Returned
  /\ callResult = [a \in Activations |-> Returned]
  /\ overrides \in [Activations -> LeftoverOverrideChoices]
  /\ pc = [a \in Activations |-> "registered"]
  /\ FreshProcess /\ EmptyService
  /\ IdleRetry /\ IdleHandler /\ IdleCleanup

SpecLeftover == InitLeftover /\ [][NextLeftover]_vars

\* A process, started by Vitest or not, whose environment may hold a
\* DATABASE_URL, before the setup file runs
InitSetup ==
  /\ factoryOptions = ExampleFactoryOptions
  /\ makeResult = Returned
  /\ callResult = [a \in Activations |-> Returned]
  /\ overrides \in [Activations -> LeftoverOverrideChoices]
  /\ pc = [a \in Activations |-> "registered"]
  /\ VITEST \in VitestChoices
  /\ setupPc = "pending"
  /\ setupWarned = FALSE
  /\ DATABASE_URL \in {EnvUnset, ExistingUrl}
  /\ FreshHooks /\ EmptyService
  /\ IdleRetry /\ IdleHandler /\ IdleCleanup

SpecSetup == InitSetup /\ [][NextSetup]_vars

\* Before makeNeonTesting is called
InitConfig ==
  /\ factoryOptions \in FactoryChoices
  /\ makeResult = NotCalled
  /\ callResult = [a \in Activations |-> NotCalled]
  /\ overrides \in [Activations -> ConfigOverrideChoices]
  /\ overrides["a2"]
       \in {NoOverrides, [NoOverrides EXCEPT !["projectId"] = "p2"]}
  /\ pc = [a \in Activations |-> "uncalled"]
  /\ FreshProcess /\ EmptyService
  /\ IdleRetry /\ IdleHandler /\ IdleCleanup

SpecConfig == InitConfig /\ [][NextConfig]_vars

\* deleteAllTestBranches is called on projects that hold branches
InitCleanup ==
  /\ factoryOptions = ExampleFactoryOptions
  /\ makeResult = Returned
  /\ callResult = [a \in Activations |-> Returned]
  /\ overrides = [a \in Activations |-> NoOverrides]
  /\ pc = [a \in Activations |-> "registered"]
  /\ FreshProcess
  /\ service = WorldBranches
  /\ \E w \in CleanupWorlds : annotations = WorldAnnotations(w)
  /\ IdleRetry /\ IdleHandler /\ IdleCleanup

SpecCleanup == InitCleanup /\ [][NextCleanup]_vars

----------------------------------------------------------------------------
(* Properties of the lifecycle *)

IndexOfId(id) == CHOOSE i \in 1..Len(BranchIds) : BranchIds[i] = id

\* The id of the latest successful create-branch response of an activation,
\* which is the branch its closure variable holds until it is deleted
LastCreatedId(a) ==
  CHOOSE id \in created[a] :
    \A other \in created[a] : IndexOfId(other) <= IndexOfId(id)

AfterAllSucceeded(a) ==
  pc[a] = "finished" /\ afterResult[a].state = "fulfilled"

DeletionRequested(a) == options(a)["deleteBranch"] # "false"

\* C1: with branch deletion enabled and a branch created by beforeAll, once
\* afterAll has completed without error a delete-branch call has been issued
\* for the id of the branch the activation held, in the project of the merged
\* options, and the accessor `() => branch` returns undefined from then on
\* (a finished activation takes no further step).
C1_DeleteOnTeardown ==
  \A a \in Activations :
    (AfterAllSucceeded(a) /\ DeletionRequested(a) /\ created[a] # {})
      => /\ deleteCall[a].issued
         /\ deleteCall[a].branchId = LastCreatedId(a)
         /\ deleteCall[a].projectId =
              (IF overrides[a]["projectId"] # Missing
               THEN overrides[a]["projectId"]
               ELSE factoryOptions["projectId"])
         /\ branch[a] = NoBranch

\* C1 witness: afterAll of a suite that overrides the project has deleted the
\* branch that beforeAll created after a retry
C1_Witness ==
  \E a \in Activations :
    /\ AfterAllSucceeded(a) /\ DeletionRequested(a)
    /\ attempt[a] > 1
    /\ deleteCall[a].issued
    /\ deleteCall[a].projectId = "p2"
    /\ branch[a] = NoBranch

BeforeAllRunning(a) ==
  pc[a] \in {"registered", "creating", "gettingUri", "backoff"}

\* C2: the step in which beforeAll succeeds leaves a created branch in
\* `branch` and the connection URI of that branch in DATABASE_URL; no other
\* step of a running beforeAll writes DATABASE_URL; and a test body has run
\* only in an activation whose beforeAll has succeeded.
C2_PublishedOnSuccess ==
  [][\A a \in Activations :
       /\ (beforeResult[a].state = "pending"
           /\ beforeResult'[a].state = "fulfilled")
            => /\ branch'[a].id \in created'[a]
               /\ DATABASE_URL'.t = "string"
               /\ Len(DATABASE_URL'.s) > 4
               /\ UriBranchId(DATABASE_URL'.s) = branch'[a].id
       /\ (BeforeAllRunning(a)
           /\ <<pc'[a], attempt'[a]>> # <<pc[a], attempt[a]>>
           /\ beforeResult'[a].state # "fulfilled")
            => DATABASE_URL' = DATABASE_URL
       /\ testsRun'[a] > 0 => beforeResult'[a].state = "fulfilled"
    ]_vars

\* C2 witness: beforeAll has succeeded on a later attempt, the variable holds
\* the URI of the branch of that attempt, and a test body has run
C2_Witness ==
  \E a \in Activations :
    /\ beforeResult[a].state = "fulfilled"
    /\ attempt[a] > 1
    /\ testsRun[a] > 0
    /\ DATABASE_URL.t = "string"
    /\ Len(DATABASE_URL.s) > 4
    /\ UriBranchId(DATABASE_URL.s) = branch[a].id

\* C3 (as claimed): the step in which afterAll runs leaves DATABASE_URL
\* absent from the process environment.
C3_UnsetAfterTeardown ==
  [][\A a \in Activations :
       (pc[a] = "tests" /\ pc'[a] # "tests") => DATABASE_URL' = EnvUnset
    ]_vars

AutoDrain(a) == options(a)["autoCloseWebSockets"] = "true"

\* C4 (as claimed): with auto-drain enabled, when the delete-branch call is
\* issued every tracked connection reports closed (or none is tracked).
C4_DrainedBeforeDelete ==
  \A a \in Activations :
    (deleteCall[a].issued /\ AutoDrain(a)) => deleteCall[a].unclosed = {}

\* C5 (as claimed): outside a running afterAll no neonWsErrorHandler is
\* registered on the process.
C5_NoGuardAfterTeardown ==
  (\A a \in Activations : pc[a] # "deleting") => listeners = 0

\* C7 (as claimed): of the branches an activation has created, at most one
\* exists on the service at any time.
C7_AtMostOneLiveBranch ==
  \A a \in Activations :
    Cardinality({b \in service : b.id \in created[a]}) <= 1

NoBranchToDelete == Rejected(Err("No branch to delete", NoStatus, 0))

\* C8 (as claimed): a delete-branch call targets an id returned by a
\* successful create-branch response of the same activation, and an afterAll
\* of an activation without such a branch issues no call and fails with
\* "No branch to delete".
C8_DeleteOnlyCreated ==
  \A a \in Activations :
    /\ deleteCall[a].issued => deleteCall[a].branchId \in created[a]
    /\ (pc[a] = "finished" /\ created[a] = {})
         => /\ ~deleteCall[a].issued
            /\ afterResult[a] = NoBranchToDelete

\* C8 (amended): a delete-branch call targets an id returned by a successful
\* create-branch response of the same activation, and an afterAll of an
\* activation without such a branch issues no call; it fails with
\* "No branch to delete" when branch deletion is enabled.
C8_DeleteOnlyCreatedWhenEnabled ==
  \A a \in Activations :
    /\ deleteCall[a].issued => deleteCall[a].branchId \in created[a]
    /\ (pc[a] = "finished" /\ created[a] = {})
         => /\ ~deleteCall[a].issued
            /\ DeletionRequested(a) => afterResult[a] = NoBranchToDelete

\* C8 witness: branch creation failed on a retried attempt and afterAll, with
\* deletion enabled, has failed with "No branch to delete"
C8_Witness ==
  \E a \in Activations :
    /\ pc[a] = "finished" /\ created[a] = {}
    /\ attempt[a] > 1
    /\ DeletionRequested(a)
    /\ ~deleteCall[a].issued
    /\ afterResult[a] = NoBranchToDelete

----------------------------------------------------------------------------
(* Properties of neonWsErrorHandler *)

HasBenignMessage(m) ==
  \E i \in 1..Len(m) :
    /\ i + 2 <= Len(m)
    /\ m[i] = "Connection"
    /\ m[i + 1] = "terminated"
    /\ m[i + 2] = "unexpectedly"

HasNeonStack(stack) ==
  /\ stack.t = "string"
  /\ \E j \in 1..Len(stack.s) : stack.s[j] = "@neondatabase/serverless"

\* C6: the handler swallows the error exactly when the message contains
\* "Connection terminated unexpectedly" and the stack contains
\* "@neondatabase/serverless"; every other error, one without a stack
\* included, is rethrown.
C6_SwallowsIffBoth ==
  hOutcome \in {"swallowed", "rethrown"}
    => (hOutcome = "swallowed"
          <=> (HasBenignMessage(hError.message) /\ HasNeonStack(hError.stack)))

\* C6 witness: an error whose message matches but which has no stack has been
\* rethrown
C6_Witness ==
  /\ hOutcome = "rethrown"
  /\ HasBenignMessage(hError.message)
  /\ Len(hError.message) > 3
  /\ hError.stack = JsUndefined

----------------------------------------------------------------------------
(* Properties of withRetry *)

Failed423(call) == ~call.ok /\ call.error.status = 423

\* C9: fn is invoked again only after an invocation that failed with status
\* 423 while attempts remained; after a failure with another status, or with
\* none, withRetry has rejected with that error, with no further invocation
\* and no delay.
C9_RetryOnlyOn423 ==
  /\ \A i \in 1..(Len(rCalls) - 1) :
       Failed423(rCalls[i]) /\ i < rOptions.maxRetries
  /\ (rCalls # <<>> /\ ~rCalls[Len(rCalls)].ok
      /\ rCalls[Len(rCalls)].error.status # 423)
       => /\ rPc = "done"
          /\ rResult = Rejected(rCalls[Len(rCalls)].error)
          /\ Len(rDelays) = Len(rCalls) - 1

\* C9 witness: after a retried 423, a failure with status 500 has been
\* propagated
C9_Witness ==
  /\ Len(rCalls) >= 2
  /\ Len(rCalls) < rOptions.maxRetries
  /\ rCalls[Len(rCalls)].error.status = 500
  /\ rResult = Rejected(rCalls[Len(rCalls)].error)

\* C10: when every invocation has failed with status 423 and withRetry has
\* settled, fn was invoked exactly maxRetries times, withRetry has rejected
\* with the error of the last invocation, and one delay fewer than
\* invocations was waited.
C10_ExhaustsRetries ==
  (rPc = "done" /\ rCalls # <<>>
   /\ \A i \in 1..Len(rCalls) : Failed423(rCalls[i]))
    => /\ Len(rCalls) = rOptions.maxRetries
       /\ rResult = Rejected(rCalls[Len(rCalls)].error)
       /\ Len(rDelays) = rOptions.maxRetries - 1

\* C10 witness: beforeAll's policy of 8 attempts, all failed with 423
C10_Witness ==
  /\ rPc = "done"
  /\ rOptions.maxRetries = 8
  /\ Len(rCalls) = 8
  /\ \A i \in 1..Len(rCalls) : Failed423(rCalls[i])
  /\ rResult.state = "rejected"

----------------------------------------------------------------------------
(* Properties of the option validation *)

Rejects(result, text) ==
  result.state = "threw" /\ Includes(result.message, <<text>>)

\* What the claim says of a call that is given the expiresIn value v
ExpectedOutcome(result, v) ==
  CASE v \in {"600.5"} -> Rejects(result, "expiresIn must be an integer")
    [] v \in {"0", "-10"} ->
         Rejects(result, "expiresIn must be a positive integer")
    [] v \in {"2592001"} ->
         Rejects(result, "expiresIn must not exceed 30 days")
    [] v \in {"null", Missing, Undef, "1", "600", "1800", "2592000"} ->
         result = Returned

\* C11: makeNeonTesting, for the expiresIn of the factory options, and
\* neonTesting, for the expiresIn of the overrides, throw "expiresIn must be
\* an integer" for a non-integer, "expiresIn must be a positive integer" for
\* an integer <= 0 and "expiresIn must not exceed 30 days" for an integer
\* above 2,592,000, and return for null, for an absent value and for the
\* integers 1, 600, 1800 and 2,592,000.
C11_ExpiryValidation ==
  /\ makeResult # NotCalled
       => ExpectedOutcome(makeResult, factoryOptions["expiresIn"])
  /\ \A a \in Activations :
       callResult[a] # NotCalled
         => ExpectedOutcome(callResult[a], overrides[a]["expiresIn"])

\* C11 witness: the factory accepted the largest valid expiry and the call
\* of neonTesting has rejected an override of zero
C11_Witness ==
  /\ makeResult = Returned
  /\ factoryOptions["expiresIn"] = "2592000"
  /\ \E a \in Activations :
       /\ overrides[a]["expiresIn"] = "0"
       /\ Rejects(callResult[a], "expiresIn must be a positive integer")

----------------------------------------------------------------------------
(* Properties of the option merge *)

\* The value of key k that the claims ascribe to an activation: the one of
\* the override if the override has the key, else the one of the factory
EffectiveValue(a, k) ==
  IF overrides[a][k] # Missing THEN overrides[a][k] ELSE factoryOptions[k]

EffectiveOptions(a) == [k \in OptionKeys |-> EffectiveValue(a, k)]

\* C12: every request of an activation's hooks is made from the overriding
\* value of each option where the override has the key and from the factory
\* value where it has not: the create-branch request (projectId,
\* parentBranchId, schemaOnly, expiresIn), the getConnectionUri request
\* (projectId, roleName, databaseName, endpoint), the installation of the
\* tracking constructor and of the guard (autoCloseWebSockets) and the
\* delete-branch call (deleteBranch, projectId); and no step changes the
\* factory options, so an activation without overrides uses them as given.
C12_OverrideWins ==
  [][/\ factoryOptions' = factoryOptions
     /\ \A a \in Activations :
          LET e == EffectiveOptions(a)
          IN /\ createRequest'[a] # createRequest[a]
                  => createRequest'[a] = CreateRequest(e, now)
             /\ (uriRequest[a] = NoRequest /\ uriRequest'[a] # NoRequest)
                  => /\ uriRequest'[a].projectId = Get(e, "projectId")
                     /\ uriRequest'[a].pooled = (Get(e, "endpoint") # "direct")
                     /\ Get(e, "roleName") # Undef
                          => uriRequest'[a].role_name = Get(e, "roleName")
                     /\ Get(e, "databaseName") # Undef
                          => uriRequest'[a].database_name =
                               Get(e, "databaseName")
             /\ (beforeResult[a].state = "pending"
                 /\ beforeResult'[a].state = "fulfilled")
                  => webSocketConstructor' =
                       (IF Get(e, "autoCloseWebSockets") = "true" THEN a
                        ELSE webSocketConstructor)
             /\ (pc[a] = "tests" /\ pc'[a] # "tests")
                  => /\ (listeners' = listeners + 1)
                          <=> (Get(e, "autoCloseWebSockets") = "true")
                     /\ (deleteCall'[a].issued
                         \/ afterResult'[a].state = "rejected")
                          <=> (Get(e, "deleteBranch") # "false")
                     /\ deleteCall'[a].issued
                          => deleteCall'[a].projectId = Get(e, "projectId")
    ]_vars

\* C12 witness: the factory disables deletion and names a parent branch; the
\* first suite, which overrides deleteBranch with true, has deleted its
\* branch, and the second, without overrides, has created its branch from
\* the factory's parent and has not deleted it
C12_Witness ==
  /\ factoryOptions = FullFactoryOptions
  /\ overrides["a1"]["deleteBranch"] = "true"
  /\ pc["a1"] = "finished" /\ deleteCall["a1"].issued
  /\ overrides["a2"] = NoOverrides
  /\ pc["a2"] = "finished" /\ ~deleteCall["a2"].issued
  /\ beforeResult["a2"].state = "fulfilled"
  /\ createRequest["a2"].parent_id = "br-main"

----------------------------------------------------------------------------
(* Properties of the defaults and of the expiry *)

\* makeNeonTesting({ apiKey, projectId }) and neonTesting()
AllDefaults(a) ==
  /\ factoryOptions = [k \in OptionKeys |->
                         IF k = "projectId" THEN "p1" ELSE Missing]
  /\ overrides[a] = [k \in OptionKeys |-> Missing]

\* C13: in an activation with only the project configured, every
\* create-branch request asks for no init source and no parent and for an
\* expiry 600 seconds after its submission; the step in which beforeAll
\* succeeds publishes a URI of the pooled endpoint and leaves the WebSocket
\* constructor as it was; afterAll registers no guard and, if a branch was
\* created, issues the delete-branch call for the held branch; and when that
\* call succeeds the branch is gone from the service.
C13_Defaults ==
  [][\A a \in Activations :
       AllDefaults(a) =>
         /\ createRequest'[a] # createRequest[a]
              => /\ createRequest'[a].init_source = Undef
                 /\ createRequest'[a].parent_id = Undef
                 /\ createRequest'[a].expires_at =
                      Instant(now.s + 600, now.ms)
         /\ (beforeResult[a].state = "pending"
             /\ beforeResult'[a].state = "fulfilled")
              => /\ DATABASE_URL'.t = "string"
                 /\ Includes(DATABASE_URL'.s, <<branch[a].id, "-pooler">>)
                 /\ webSocketConstructor' = webSocketConstructor
         /\ (pc[a] = "tests" /\ pc'[a] # "tests")
              => /\ listeners' = listeners
                 /\ created[a] # {}
                      => /\ deleteCall'[a].issued
                         /\ deleteCall'[a].branchId = branch[a].id
                         /\ deleteCall'[a].projectId = "p1"
         /\ (pc[a] = "deleting" /\ afterResult'[a].state = "fulfilled")
              => /\ \A b \in service' : b.id # deleteCall[a].branchId
                 /\ \E b \in service : b.id = deleteCall[a].branchId
    ]_vars

\* C13 witness: a suite with the defaults has run to its end some time after
\* the start of the run, its URI was that of the pooled endpoint, and its
\* branch, requested with the default expiry, has been deleted
C13_Witness ==
  \E a \in Activations :
    /\ AllDefaults(a)
    /\ pc[a] = "finished"
    /\ beforeResult[a].state = "fulfilled"
    /\ afterResult[a].state = "fulfilled"
    /\ createRequest[a].expires_at.s > 600
    /\ createRequest[a].init_source = Undef
    /\ deleteCall[a].issued
    /\ \A b \in service : b.id # deleteCall[a].branchId
    /\ webSocketConstructor = OriginalWebSocket

\* The number of seconds the claim ascribes to a valid expiresIn value; an
\* absent value stands for the default
ExpirySeconds(v) ==
  CASE v \in {Missing, Undef} -> 600
    [] v = "1" -> 1
    [] v = "600" -> 600
    [] v = "1800" -> 1800
    [] v = "2592000" -> 2592000

\* The tolerance of the expiry tests, in milliseconds
ExpiryTolerance == 10000

\* C14: a create-branch request submitted at time t by an activation with
\* effective expiry E carries the expiry t + E seconds, and none if the
\* expiry is null; the service creates the branch with the expiry of the
\* request, so that the expiry of a branch with one is never after its
\* creation time plus E and, in a run that has lasted less than ten seconds,
\* less than ten seconds before it.
C14_ExpiryTimestamp ==
  [][\A a \in Activations :
       LET v == EffectiveValue(a, "expiresIn")
       IN /\ createRequest'[a] # createRequest[a]
               => createRequest'[a].expires_at =
                    (IF v = "null" THEN NoTimestamp
                     ELSE Instant(now.s + ExpirySeconds(v), now.ms))
          /\ \A b \in service' :
               b.id \in created'[a]
                 => /\ b.expires_at = createRequest'[a].expires_at
                    /\ (v = "null") <=> (b.expires_at = NoTimestamp)
                    /\ v # "null"
                         => LET due == Instant(b.created_at.s
                                                 + ExpirySeconds(v),
                                               b.created_at.ms)
                            IN /\ MsBetween(b.expires_at, due) <= 0
                               /\ MsBetween(now', Instant(0, 0))
                                      < ExpiryTolerance
                                    => MsBetween(b.expires_at, due)
                                         > -ExpiryTolerance
    ]_vars

\* C14 witness: the factory sets 1800 seconds and disables deletion; the
\* branch of the first suite, which overrode the expiry with null, has no
\* expiry; the second suite submitted its request 4.5 s into the run, and
\* the service created its branch 4.5 s later, with the expiry requested
C14_Witness ==
  /\ factoryOptions = FullFactoryOptions
  /\ overrides["a1"]["expiresIn"] = "null"
  /\ overrides["a2"] = NoOverrides
  /\ createRequest["a1"].expires_at = NoTimestamp
  /\ \E b \in service :
       b.id \in created["a1"] /\ b.expires_at = NoTimestamp
  /\ \E b \in service :
       /\ b.id \in created["a2"]
       /\ b.created_at = Instant(9, 0)
       /\ b.expires_at = Instant(1804, 500)

----------------------------------------------------------------------------
(* Properties of deleteAllTestBranches *)

\* The listing's annotation map holds "integration-test": "true" for the id
HasMarker(notes, id) ==
  \E n \in notes : n.id = id /\ <<"integration-test", "true">> \in n.value

ListedIds(data) == {data.branches[i].id : i \in 1..Len(data.branches)}

DeletedIds(calls) == {calls[i].branchId : i \in 1..Len(calls)}

\* C15: every delete-branch call of deleteAllTestBranches is for a branch of
\* the listing for which the listing's annotation map holds
\* "integration-test": "true", in the listed project; every such branch the
\* loop has passed has had its call, all of them once the call has completed
\* without error; and a branch disappears from the service only if the map
\* held the marker for it.
C15_DeletesExactlyMarked ==
  [][/\ cCalls' > 0
          => LET calls == cDeletes'[cCalls']
                 data == cListing'
             IN /\ \A i \in 1..Len(calls) :
                     /\ calls[i].branchId \in ListedIds(data)
                     /\ HasMarker(data.annotations, calls[i].branchId)
                     /\ calls[i].projectId = factoryOptions["projectId"]
                /\ \A i \in 1..Len(data.branches) :
                     (i <= cIndex'
                      /\ HasMarker(data.annotations, data.branches[i].id))
                       => data.branches[i].id \in DeletedIds(calls)
                /\ (cPc' = "done" /\ cResult'[cCalls'] = Fulfilled)
                     => cIndex' = Len(data.branches) + 1
     /\ \A b \in service \ service' :
          /\ HasMarker(annotations, b.id)
          /\ b.project_id = factoryOptions["projectId"]
    ]_vars

\* C15 witness: a call has completed on a project whose listing held one
\* marked branch, one marked "false" and one without an entry; it issued one
\* delete call, and the two other branches and the marked branch of the other
\* project are still there
C15_Witness ==
  /\ cCalls = 1 /\ cPc = "done" /\ cResult[1] = Fulfilled
  /\ Len(cDeletes[1]) = 1
  /\ Len(cListing.branches) = 3
  /\ Cardinality(cListing.annotations) = 2
  /\ \E n \in cListing.annotations :
       <<"integration-test", "false">> \in n.value
  /\ Cardinality({b \in service : b.project_id = "p1"}) = 2
  /\ \E b \in service : b.id = OtherProjectBranch

\* C16: when the first call of deleteAllTestBranches has completed without
\* error, a second call issues no delete-branch call; and a call whose
\* listing holds no marked branch issues none and completes without error.
C16_CleanupIdempotent ==
  /\ (cCalls = 2 /\ cResult[1] = Fulfilled) => cDeletes[2] = <<>>
  /\ (cCalls > 0 /\ cPc \in {"deleting", "done"} /\ cIndex > 0
      /\ \A id \in ListedIds(cListing) : ~HasMarker(cListing.annotations, id))
       => /\ cDeletes[cCalls] = <<>>
          /\ cPc = "done"
          /\ cResult[cCalls] = Fulfilled

\* C16 witness: the first call deleted two branches and the second call has
\* completed without a delete-branch call
C16_Witness ==
  /\ cCalls = 2 /\ cPc = "done"
  /\ cResult = <<Fulfilled, Fulfilled>>
  /\ Len(cDeletes[1]) = 2
  /\ cDeletes[2] = <<>>
  /\ Len(cListing.branches) = 1

----------------------------------------------------------------------------
(* Properties of teardown and of the accessor *)

DeletionDisabled(a) == EffectiveValue(a, "deleteBranch") = "false"

Expired(b) == b.expires_at.t = "date" /\ NotAfter(b.expires_at, now)

\* C17: an activation whose deleteBranch option is false never issues a
\* delete-branch call and its afterAll resolves; the branch it created is
\* on the service unless its expiry has passed, which never happens to a
\* branch without expiry, and `branch`, which the accessor returns, keeps
\* holding that branch during and after afterAll.
C17_KeptWhenDisabled ==
  \A a \in Activations :
    DeletionDisabled(a)
      => /\ ~deleteCall[a].issued
         /\ pc[a] = "finished" => afterResult[a] = Fulfilled
         /\ created[a] # {}
              => /\ branch[a].id \in created[a]
                 /\ branch[a] \in service \/ Expired(branch[a])

\* C17 witness: the factory disables deletion; both suites are over; the
\* branch of the first, created with an expiry of one second, has expired and
\* the accessor still returns its handle; the branch of the second, with the
\* factory's expiry, is still on the service
C17_Witness ==
  /\ factoryOptions = FullFactoryOptions
  /\ overrides["a1"]["expiresIn"] = "1"
  /\ overrides["a2"] = NoOverrides
  /\ pc["a1"] = "finished" /\ pc["a2"] = "finished"
  /\ ~deleteCall["a1"].issued /\ ~deleteCall["a2"].issued
  /\ branch["a1"].id \in created["a1"]
  /\ branch["a1"] \notin service
  /\ branch["a2"] \in service

\* A step in which an API call of the activation's beforeAll is answered
AnswerToBeforeAll(a) ==
  pc[a] \in {"creating", "gettingUri"} /\ pc'[a] # pc[a]

\* C18: a failed call in beforeAll is retried only if attempts remain; the
\* step in which beforeAll rejects does so with the error of the current
\* attempt, whose status is not 423 unless it is the eighth attempt, and
\* leaves DATABASE_URL and the WebSocket constructor as they were and, if no
\* create-branch call of the activation has succeeded, `branch` undefined
\* and the service and the process listeners as they were; so does
\* every other step of a beforeAll that does not succeed; and the tracking
\* constructor of an activation whose beforeAll was rejected is never the
\* installed one, auto-drain or not.
C18_FailureLeavesNoTrace ==
  [][\A a \in Activations :
       /\ (AnswerToBeforeAll(a) /\ pc'[a] = "backoff")
            => attempt[a] < 8
       /\ (beforeResult[a].state = "pending"
           /\ beforeResult'[a].state = "rejected")
            => /\ beforeResult'[a].error.at = attempt[a]
               /\ beforeResult'[a].error.status = 423 => attempt[a] = 8
               /\ DATABASE_URL' = DATABASE_URL
               /\ webSocketConstructor' = webSocketConstructor
               /\ created'[a] = {}
                    => /\ branch'[a] = NoBranch
                       /\ service' = service
                       /\ listeners' = listeners
       /\ (BeforeAllRunning(a)
           /\ <<pc'[a], attempt'[a]>> # <<pc[a], attempt[a]>>
           /\ beforeResult'[a].state # "fulfilled")
            => /\ DATABASE_URL' = DATABASE_URL
               /\ webSocketConstructor' = webSocketConstructor
       /\ beforeResult'[a].state = "rejected" => webSocketConstructor' # a
    ]_vars

\* C18 witness: the beforeAll of an auto-drain suite has been rejected with
\* the 423 of its eighth attempt, after seven delays; its tracker is not
\* installed, and DATABASE_URL still holds the URI that the other suite
\* published meanwhile
C18_Witness ==
  \E a \in Activations : \E b \in Activations \ {a} :
    /\ AutoDrain(a)
    /\ beforeResult[a] = Rejected(ApiError(423, 8))
    /\ Len(delays[a]) = 7
    /\ created[a] = {}
    /\ webSocketConstructor # a
    /\ DATABASE_URL.t = "string"
    /\ Len(DATABASE_URL.s) > 4
    /\ UriBranchId(DATABASE_URL.s) = branch[b].id

\* C18 second case: a rejection with status 500 on the first attempt while
\* the variable is unset
C18_WitnessNon423 ==
  \E a \in Activations :
    /\ AutoDrain(a)
    /\ beforeResult[a] = Rejected(ApiError(500, 1))
    /\ DATABASE_URL = EnvUnset
    /\ webSocketConstructor = OriginalWebSocket

\* A step in which the delete-branch call of afterAll is answered
AnswerToDelete(a) == pc[a] = "deleting" /\ pc'[a] # "deleting"

\* C19: when the delete-branch call of afterAll fails, afterAll rejects with
\* the error of that call, the branch stays on the service and `branch`
\* keeps the branch the call was for, which the accessor returns from then
\* on; afterAll resolves only when the call has succeeded.
C19_DeleteFailurePropagates ==
  [][\A a \in Activations :
       AnswerToDelete(a)
         => /\ pc'[a] = "finished"
            /\ faults' # faults
                 => /\ afterResult'[a].state = "rejected"
                    /\ afterResult'[a].error.message = "Request failed"
                    /\ afterResult'[a].error.status \in {423, 500, 0}
                    /\ branch'[a] = branch[a]
                    /\ branch'[a].id = deleteCall[a].branchId
                    /\ branch'[a] \in service'
            /\ afterResult'[a].state = "fulfilled"
                 => /\ faults' = faults
                    /\ branch'[a] = NoBranch
    ]_vars

\* C19 witness: the delete-branch call of a suite failed with status 500;
\* afterAll was rejected with that error and the accessor returns the branch
C19_Witness ==
  \E a \in Activations :
    /\ pc[a] = "finished"
    /\ deleteCall[a].issued
    /\ afterResult[a] = Rejected(ApiError(500, 0))
    /\ branch[a].id = deleteCall[a].branchId
    /\ branch[a] \in service

\* What the accessor `() => branch` returns: always a value, at once
Accessor(a) == branch[a]

DeletedByAfterAll(a) == AfterAllSucceeded(a) /\ deleteCall[a].issued

\* C20: the accessor returns undefined as long as no create-branch call of
\* the activation has succeeded; from the success of a create-branch call
\* on, before beforeAll has completed included, and until afterAll has
\* deleted the branch, it returns the record of the latest successful
\* create-branch call, which is the record the service holds for that branch:
\* same id, project, creation time and expiry.
C20_AccessorReturnsHandle ==
  \A a \in Activations :
    /\ created[a] = {} => Accessor(a) = NoBranch
    /\ (created[a] # {} /\ ~DeletedByAfterAll(a))
         => /\ Accessor(a).id = LastCreatedId(a)
            /\ Accessor(a) \in service
            /\ Accessor(a).project_id = EffectiveValue(a, "projectId")
            /\ Accessor(a).expires_at = createRequest[a].expires_at
                 \/ pc[a] = "creating"

\* C20 witness: beforeAll is still waiting for the connection URI of its
\* second attempt, in the overriding project, and the accessor already
\* returns the branch of that attempt
C20_Witness ==
  \E a \in Activations :
    /\ pc[a] = "gettingUri"
    /\ attempt[a] = 2
    /\ Cardinality(created[a]) = 2
    /\ Accessor(a).id = LastCreatedId(a)
    /\ Accessor(a).project_id = "p2"
    /\ Accessor(a).expires_at = Instant(600, 0)
    /\ Accessor(a) \in service

----------------------------------------------------------------------------
(* Properties of the connection URI and of the role and database *)

\* The URI is that of the pooled endpoint
IsPooledUri(uri) == \E i \in 1..Len(uri) : uri[i] = "-pooler"

\* C21: the step in which beforeAll succeeds publishes in DATABASE_URL a URI
\* of the held branch that is the pooled-endpoint URI unless the endpoint
\* option in effect (the override's if it has the key, else the factory's)
\* is "direct", in which case it is the direct-endpoint URI; an absent
\* endpoint option yields the pooled URI.
C21_EndpointKind ==
  [][\A a \in Activations :
       (beforeResult[a].state = "pending"
        /\ beforeResult'[a].state = "fulfilled")
         => /\ DATABASE_URL'.t = "string"
            /\ Len(DATABASE_URL'.s) > 4
            /\ UriBranchId(DATABASE_URL'.s) = branch[a].id
            /\ IsPooledUri(DATABASE_URL'.s)
                 <=> EffectiveValue(a, "endpoint") # "direct"
            /\ EffectiveValue(a, "endpoint") = Missing
                 => IsPooledUri(DATABASE_URL'.s)
    ]_vars

\* C21 witness: the factory asks for the direct endpoint; the first suite,
\* which overrides the endpoint with "pooler", has run, and the second suite,
\* without overrides, has just published the direct URI of its branch
C21_Witness ==
  /\ factoryOptions = FullFactoryOptions
  /\ overrides["a1"]["endpoint"] = "pooler"
  /\ pc["a1"] = "finished" /\ beforeResult["a1"].state = "fulfilled"
  /\ overrides["a2"] = NoOverrides
  /\ pc["a2"] = "tests" /\ beforeResult["a2"].state = "fulfilled"
  /\ DATABASE_URL.t = "string"
  /\ ~IsPooledUri(DATABASE_URL.s)
  /\ Len(DATABASE_URL.s) > 4
  /\ UriBranchId(DATABASE_URL.s) = branch["a2"].id

\* C21 second case: with no endpoint option at either level the published
\* URI is the pooled one
C21_WitnessAbsent ==
  \E a \in Activations :
    /\ EffectiveValue(a, "endpoint") = Missing
    /\ pc[a] = "tests" /\ beforeResult[a].state = "fulfilled"
    /\ DATABASE_URL.t = "string"
    /\ IsPooledUri(DATABASE_URL.s)

\* What is wrong with a create-branch response for the named role and
\* database (Missing when none is named), as the messages of the errors
RoleProblems(name, roles) ==
  {m \in {"No role available in branch"} : name = Missing /\ roles = <<>>}
    \cup {m \in {"Role not found"} :
            name # Missing /\ \A i \in 1..Len(roles) : roles[i] # name}

DatabaseProblems(name, databases) ==
  {m \in {"No database available in branch"} :
     name = Missing /\ databases = <<>>}
    \cup {m \in {"Database not found"} :
            name # Missing /\ \A i \in 1..Len(databases) : databases[i] # name}

\* The name the claim picks from a list: the named one, else the conventional
\* one if listed, else the first listed
Preferred(name, conventional, list) ==
  IF name # Missing THEN name
  ELSE IF \E i \in 1..Len(list) : list[i] = conventional THEN conventional
  ELSE list[1]

\* A step in which a create-branch call of the activation succeeds
CreateAnswered(a) == created'[a] # created[a]

\* C22: when a create-branch call succeeds, createBranch either asks for the
\* connection URI of the role that is the configured roleName if there is
\* one, else "neondb_owner" if the response lists it, else the first listed
\* role, and of the database that is the configured databaseName, else
\* "neondb" if listed, else the first listed database; or it fails, without a
\* getConnectionUri request, exactly when a named role or database is not in
\* the response ("Role not found", "Database not found") or a list is empty
\* and no name is configured for it ("No role available in branch", "No
\* database available in branch"), with the message of one of the faults
\* present, hence with that message when there is only one.
C22_RoleAndDatabase ==
  [][\A a \in Activations :
       CreateAnswered(a) =>
         LET data == createResponse'[a]
             role == EffectiveValue(a, "roleName")
             database == EffectiveValue(a, "databaseName")
             problems == RoleProblems(role, data.roles)
                           \cup DatabaseProblems(database, data.databases)
         IN /\ problems = {}
                 => /\ pc'[a] = "gettingUri"
                    /\ beforeResult'[a].state = "pending"
                    /\ uriRequest'[a].role_name =
                         Preferred(role, "neondb_owner", data.roles)
                    /\ uriRequest'[a].database_name =
                         Preferred(database, "neondb", data.databases)
            /\ problems # {}
                 => /\ beforeResult'[a].state = "rejected"
                    /\ beforeResult'[a].error.message \in problems
                    /\ uriRequest'[a] = NoRequest
    ]_vars

\* C22 witness: with no name configured and a response that lists the owner
\* role second and no database "neondb", createBranch has asked for the URI
\* of the owner role and of the first listed database
C22_Witness ==
  \E a \in Activations :
    /\ overrides[a] = NoOverrides
    /\ pc[a] = "gettingUri"
    /\ createResponse[a] =
         [roles |-> <<"app_role", "neondb_owner">>,
          databases |-> <<"appdb", "logs">>]
    /\ uriRequest[a].role_name = "neondb_owner"
    /\ uriRequest[a].database_name = "appdb"

\* C22 second case: a named role that the response does not list
C22_WitnessNotFound ==
  \E a \in Activations :
    /\ overrides[a]["roleName"] = "ghost"
    /\ createResponse[a].roles = <<"app_role", "reader">>
    /\ createResponse[a].databases = <<"neondb">>
    /\ beforeResult[a] = Rejected(Err("Role not found", NoStatus, 1))

\* C22 third case: an empty list of databases and no name configured
C22_WitnessNoDatabase ==
  \E a \in Activations :
    /\ overrides[a]["roleName"] = "app_role"
    /\ overrides[a]["databaseName"] = Missing
    /\ createResponse[a].roles = <<"app_role", "reader">>
    /\ createResponse[a].databases = <<>>
    /\ beforeResult[a] =
         Rejected(Err("No database available in branch", NoStatus, 1))

NameErrors == {"Role not found", "Database not found"}

\* C23 (as claimed): when beforeAll has failed with "Role not found" or
\* "Database not found", no create-branch request has been submitted, no
\* branch has been created and no retry has been made.
C23_NameErrorBeforeNetwork ==
  \A a \in Activations :
    (beforeResult[a].state = "rejected"
     /\ beforeResult[a].error.message \in NameErrors)
      => /\ createRequest[a] = NoCreateRequest
         /\ created[a] = {}
         /\ attempt[a] = 1 /\ delays[a] = <<>>

----------------------------------------------------------------------------
(* Properties of the branches that the hooks create *)

\* The create-branch requests submitted so far, each as the activation and
\* the position of the request among those of the activation
Submissions ==
  UNION {{<<a, i>> : i \in 1..Len(branchNames[a])} : a \in Activations}

\* C24: every create-branch request carries a branch name that starts with
\* "test/", one name for each attempt of an activation's beforeAll, and the
\* names of any two requests, of the same activation or of two, are
\* different.
C24_DistinctNames ==
  /\ \A a \in Activations :
       /\ Len(branchNames[a]) = attempt[a]
       /\ \A i \in 1..Len(branchNames[a]) : branchNames[a][i][1] = "test/"
  /\ \A s \in Submissions : \A t \in Submissions :
       s # t => branchNames[s[1]][s[2]] # branchNames[t[1]][t[2]]

\* C24 witness: two suites on the same project have submitted four requests
\* or more between them, three of them by one suite after two failed attempts
C24_Witness ==
  \E a \in Activations : \E b \in Activations \ {a} :
    /\ createRequest[a].projectId = "p1"
    /\ createRequest[b].projectId = "p1"
    /\ Len(branchNames[a]) = 3
    /\ Len(branchNames[b]) >= 1
    /\ Cardinality(Submissions) >= 4

\* The ids of the branches that the hooks have created
HookCreated == UNION {created[a] : a \in Activations}

\* A step in which a call of deleteAllTestBranches completes without error
CleanupCompletes ==
  /\ cCalls > 0 /\ cPc # "done"
  /\ cPc' = "done" /\ cResult'[cCalls] = Fulfilled

\* C25: every branch on the service that a beforeAll hook created carries the
\* annotation "integration-test": "true"; the listing that
\* deleteAllTestBranches obtains holds every branch that is in the factory's
\* project at that time; and when a call completes without error, every
\* branch of its listing that a hook created, left behind because deletion
\* was disabled, afterAll failed or had not run, is gone from the service.
C25_LeftoverIsCleaned ==
  [][/\ \A b \in service' :
          b.id \in HookCreated' => HasMarker(annotations', b.id)
     /\ (cPc = "listing" /\ cPc' # "listing")
          => \A b \in service :
               b.project_id = factoryOptions["projectId"]
                 => b.id \in ListedIds(cListing')
     /\ CleanupCompletes
          => \A b \in service' :
               ~(/\ b.id \in HookCreated
                 /\ b.id \in ListedIds(cListing)
                 /\ b.project_id = factoryOptions["projectId"])
    ]_vars

\* C25 witness: one suite has ended with deletion disabled, the afterAll of
\* the other has failed on its delete-branch call; a later call of
\* deleteAllTestBranches has deleted both branches and completed
C25_Witness ==
  \E a \in Activations : \E b \in Activations \ {a} :
    /\ pc[a] = "finished" /\ DeletionDisabled(a)
    /\ pc[b] = "finished" /\ afterResult[b].state = "rejected"
    /\ created[a] # {} /\ created[b] # {}
    /\ branch[a].project_id = "p1" /\ branch[b].project_id = "p1"
    /\ cCalls = 1 /\ cPc = "done" /\ cResult[1] = Fulfilled
    /\ DeletedIds(cDeletes[1]) = created[a] \cup created[b]
    /\ service = {}

\* C25 second case: the branch of a suite on another project is not touched
\* by the call
C25_WitnessOtherProject ==
  \E a \in Activations :
    /\ pc[a] = "finished" /\ DeletionDisabled(a)
    /\ branch[a].project_id = "p2"
    /\ cCalls = 1 /\ cPc = "done" /\ cResult[1] = Fulfilled
    /\ branch[a] \in service

----------------------------------------------------------------------------
(* Properties of the setup file *)

\* The process was started by the test runner, which sets VITEST to "true"
UnderVitest == VITEST = JsString(<<"true">>)

\* The hooks of no suite have started
NoHookStarted == \A a \in Activations : pc[a] = "registered"

\* C26: the setup file runs before the hooks of any suite; in a process
\* started by the test runner its run leaves DATABASE_URL absent from the
\* environment, whatever it held; in a process that is not, its run leaves
\* DATABASE_URL as it was; and it changes nothing else.
C26_SetupClearsUrl ==
  [][/\ setupPc' # "done" => NoHookStarted'
     /\ (setupPc = "pending" /\ setupPc' = "done")
          => /\ NoHookStarted
             /\ UnderVitest => DATABASE_URL' = EnvUnset
             /\ ~UnderVitest => DATABASE_URL' = DATABASE_URL
             /\ VITEST' = VITEST
             /\ webSocketConstructor' = webSocketConstructor
             /\ service' = service
    ]_vars

\* C26 witness: under the test runner the setup file has run, has logged
\* that the environment held a DATABASE_URL, and the variable is gone while
\* no hook has started
C26_Witness ==
  /\ UnderVitest
  /\ setupPc = "done"
  /\ setupWarned
  /\ DATABASE_URL = EnvUnset
  /\ NoHookStarted

\* C26 second case: outside the test runner the variable is kept
C26_WitnessKept ==
  /\ VITEST = EnvUnset
  /\ setupPc = "done"
  /\ DATABASE_URL = ExistingUrl

----------------------------------------------------------------------------
(* Properties of TrackingWebSocket *)

\* The positions of the WebSockets constructed in this step
Constructed ==
  {i \in 1..MaxSockets : sockets[i].state = "unused"
                           /\ sockets'[i].state # "unused"}

\* The URL leads to the host of the branch, through either endpoint
TargetsBranch(url, b) ==
  \E pooled \in BOOLEAN : url = WsUrl(EndpointHost(b.id, pooled))

\* The URL holds the host pattern of the service
HasNeonPattern(url) == \E k \in 1..Len(url) : url[k] = ".neon.tech/"

\* The activations whose tracking constructor is the installed one
Trackers == {a \in Activations : webSocketConstructor = a}

\* C27 (as claimed): a WebSocket constructed while the tracking constructor
\* of an activation is installed is added to that activation's tracked set if
\* and only if its URL leads to the host of the activation's branch; it is
\* constructed open, with its URL, as by the original constructor, and no
\* other tracked set changes.
C27_TracksOnlyBranchHost ==
  [][\A i \in Constructed :
       /\ sockets'[i].state = "OPEN"
       /\ \A a \in Activations :
            IF a \in Trackers
            THEN /\ neonSockets'[a] \ neonSockets[a] \subseteq {i}
                 /\ i \in neonSockets'[a]
                      <=> TargetsBranch(sockets'[i].url, branch[a])
            ELSE neonSockets'[a] = neonSockets[a]
    ]_vars

\* C27 (amended): a WebSocket constructed while the tracking constructor of
\* an activation is installed is added to that activation's tracked set if
\* and only if its URL holds ".neon.tech/", which the URLs of all hosts of
\* the service do, the branch's own and any other; it is constructed open,
\* with its URL, as by the original constructor; and no other tracked set
\* changes.
C27_TracksNeonPattern ==
  [][\A i \in Constructed :
       /\ sockets'[i].state = "OPEN"
       /\ \A a \in Activations :
            IF a \in Trackers
            THEN /\ neonSockets'[a] \ neonSockets[a] \subseteq {i}
                 /\ i \in neonSockets'[a] <=> HasNeonPattern(sockets'[i].url)
                 /\ TargetsBranch(sockets'[i].url, branch[a])
                      => i \in neonSockets'[a]
            ELSE neonSockets'[a] = neonSockets[a]
    ]_vars

\* C27 witness: while its tracker is installed, the test body of a suite has
\* opened a connection to its branch, which is tracked, and one to an
\* unrelated host, which is not
C27_Witness ==
  \E a \in Activations : \E i, j \in 1..MaxSockets :
    /\ webSocketConstructor = a
    /\ pc[a] = "tests"
    /\ TargetsBranch(sockets[i].url, branch[a])
    /\ sockets[j].url = OtherUrl
    /\ neonSockets[a] = {i}
    /\ sockets[i].state = "OPEN" /\ sockets[j].state = "OPEN"

\* C27 second case: a connection to another branch of the service is tracked
C27_WitnessOtherBranch ==
  \E a \in Activations : \E i \in 1..MaxSockets :
    /\ webSocketConstructor = a
    /\ sockets[i].url = WsUrl(OtherNeonHost)
    /\ i \in neonSockets[a]

\* An auto-drain afterAll has run to its end
Drained(a) == AutoDrain(a) /\ pc[a] = "finished"

\* C28 (as claimed): no tracked set holds a connection that has closed, and
\* the tracked set of an auto-drain activation whose afterAll has completed
\* is empty.
C28_TrackedSetEmptied ==
  \A a \in Activations :
    /\ \A i \in neonSockets[a] : sockets[i].state # "CLOSED"
    /\ Drained(a) => neonSockets[a] = {}

\* C29 (as claimed): once the afterAll of an auto-drain activation has
\* completed, neonConfig.webSocketConstructor is no longer the tracking
\* constructor of that activation.
C29_ConstructorRestored ==
  \A a \in Activations : Drained(a) => webSocketConstructor # a

\* C30 (as claimed): a step in which a registered neonWsErrorHandler
\* rethrows an error takes the handler off the process.
C30_DetachesBeforeRethrow ==
  [][(lastUncaught' # lastUncaught /\ lastUncaught'.outcome = "rethrown")
       => listeners' < listeners
    ]_vars

----------------------------------------------------------------------------
(* Properties of the events the guard listens to *)

\* The process has just emitted the event for an error
Emitted(event) == lastUncaught' # lastUncaught /\ lastUncaught'.event = event

\* C31 (as claimed): while a neonWsErrorHandler is registered, an error of
\* the benign signature is swallowed when it surfaces as an unhandled
\* rejection, as it is when it surfaces as an uncaught exception.
C31_GuardsRejections ==
  [][\A event \in {"uncaughtException", "unhandledRejection"} :
       (/\ Emitted(event)
        /\ listeners > 0
        /\ HasBenignMessage(lastUncaught'.error.message)
        /\ HasNeonStack(lastUncaught'.error.stack))
         => lastUncaught'.outcome = "swallowed"
    ]_vars

----------------------------------------------------------------------------
(* Properties of a failed validation *)

\* No hook of the activation has run and no request was made for it
NoTraceOf(a) ==
  /\ attempt[a] = 0
  /\ beforeResult[a] = Pending /\ afterResult[a] = Pending
  /\ createRequest[a] = NoCreateRequest
  /\ uriRequest[a] = NoRequest
  /\ ~deleteCall[a].issued
  /\ created[a] = {}

\* The call of makeNeonTesting, or a call of neonTesting, throws in this step
ThrowsNow ==
  \/ makeResult = NotCalled /\ makeResult'.state = "threw"
  \/ \E a \in Activations :
       callResult[a] = NotCalled /\ callResult'[a].state = "threw"

\* C32: the step in which makeNeonTesting or neonTesting throws for an
\* invalid expiresIn changes nothing but the outcome of that call: no
\* request is made, nothing of the process or of the service changes. When
\* makeNeonTesting has thrown no activation exists, and no hook has run or
\* made a request; when a call of neonTesting has thrown, the hooks of that
\* activation are not registered: they never run and make no request.
C32_ThrowsBeforeAnythingElse ==
  [][/\ ThrowsNow
          => UNCHANGED <<attempt, branch, beforeResult, afterResult, created,
                         deleteCall, createRequest, uriRequest, DATABASE_URL,
                         webSocketConstructor, listeners, service,
                         annotations, nextId>>
     /\ makeResult'.state = "threw"
          => /\ service' = {}
             /\ \A a \in Activations :
                  /\ callResult'[a] = NotCalled
                  /\ pc'[a] = "uncalled"
                  /\ NoTraceOf(a)'
     /\ \A a \in Activations :
          callResult'[a].state = "threw"
            => /\ pc'[a] = "threw"
               /\ NoTraceOf(a)'
               /\ \A b \in service' : b.id \notin created'[a]
    ]_vars

\* C32 witness: the call of neonTesting of the first suite has thrown, and
\* the second suite has run to its end and created a branch
C32_Witness ==
  /\ callResult["a1"].state = "threw"
  /\ pc["a2"] = "finished"
  /\ created["a2"] # {}

\* C32 second case: makeNeonTesting has thrown
C32_WitnessFactory == makeResult.state = "threw"

----------------------------------------------------------------------------
(* Properties of the backoff *)

\* The policy beforeAll passes to withRetry
CreatePolicy ==
  [maxRetries |-> CreateMaxRetries, baseDelayMs |-> CreateBaseDelayMs]

\* The waits the claim lists for that policy
CreateWaits == <<1000, 2000, 4000, 8000, 16000, 32000, 64000>>

\* C33: the first wait of withRetry is baseDelayMs and every later wait is
\* twice the one before it, so the wait before attempt k + 1 is
\* baseDelayMs * 2^(k-1); a wait follows a failure with status 423 of an
\* attempt that is not the last, so that attempt k + 1 starts after k waits
\* and at most maxRetries - 1 waits are made; with beforeAll's policy the
\* waits are, in this order, 1000, 2000, 4000, 8000, 16000, 32000 and
\* 64000 ms.
C33_BackoffDoubles ==
  /\ \A k \in 1..Len(rDelays) :
       /\ rDelays[k] = IF k = 1 THEN rOptions.baseDelayMs
                       ELSE 2 * rDelays[k - 1]
       /\ Failed423(rCalls[k])
       /\ k < rOptions.maxRetries
  /\ rPc = "calling" => Len(rDelays) = rAttempt - 1
  /\ rOptions = CreatePolicy
       => rDelays = SubSeq(CreateWaits, 1, Len(rDelays))

\* C33 witness: with beforeAll's policy the eighth attempt is under way,
\* after seven waits of which the last was of 64000 ms
C33_Witness ==
  /\ rOptions = CreatePolicy
  /\ rPc = "calling"
  /\ rAttempt = 8
  /\ Len(rDelays) = 7
  /\ rDelays[7] = 64000

----------------------------------------------------------------------------
(* Properties of overlapping suites *)

\* DATABASE_URL holds a connection URI of the branch the activation holds
HoldsUriOf(a) ==
  /\ DATABASE_URL.t = "string"
  /\ Len(DATABASE_URL.s) > 4
  /\ UriBranchId(DATABASE_URL.s) = branch[a].id

\* The test bodies of the activation are under way
InTests(a) == pc[a] = "tests" /\ beforeResult[a].state = "fulfilled"

\* A hook of the activation writes DATABASE_URL in this step: its beforeAll
\* succeeds, or its afterAll starts
Publishes(a) ==
  beforeResult[a].state = "pending" /\ beforeResult'[a].state = "fulfilled"

Clears(a) == pc[a] = "tests" /\ pc'[a] # "tests"

\* C34: the hooks of an activation write DATABASE_URL without regard to the
\* other activations: while the test bodies of an activation b are under
\* way, the step in which the beforeAll of another activation a succeeds
\* replaces the value by the URI of a's branch, and the step in which the
\* afterAll of a starts replaces it by a value that is not a URI of b's
\* branch; b's test bodies go on in either case.
C34_UnscopedVariable ==
  [][\A a, b \in Activations :
       (a # b /\ InTests(b))
         => /\ Publishes(a)
                 => /\ HoldsUriOf(a)'
                    /\ ~HoldsUriOf(b)'
                    /\ InTests(b)'
            /\ Clears(a)
                 => /\ ~HoldsUriOf(b)'
                    /\ ~HoldsUriOf(a)'
                    /\ InTests(b)'
    ]_vars

\* C34 witness: a test body of one activation can run while DATABASE_URL
\* holds the URI of the branch of another activation, whose beforeAll
\* succeeded later
C34_Witness ==
  \E a, b \in Activations :
    /\ a # b
    /\ InTests(b) /\ ENABLED RunTest(b)
    /\ InTests(a)
    /\ HoldsUriOf(a) /\ ~HoldsUriOf(b)

\* C34 second case: a test body of one activation can run after the afterAll
\* of another activation has taken its URI out of DATABASE_URL
C34_WitnessCleared ==
  \E a, b \in Activations :
    /\ a # b
    /\ InTests(b) /\ ENABLED RunTest(b)
    /\ pc[a] \in {"deleting", "finished"}
    /\ beforeResult[a].state = "fulfilled"
    /\ ~HoldsUriOf(b)
    /\ DATABASE_URL.t = "string" /\ Len(DATABASE_URL.s) = 1

----------------------------------------------------------------------------
(* Properties of the loop of withRetry *)

\* Both options are positive integers
PolicyIsValid == rOptions.maxRetries >= 1 /\ rOptions.baseDelayMs >= 1

\* withRetry has settled
Settled == rPc = "done" /\ rResult.state \in {"fulfilled", "rejected"}

\* The invocations so far: at most maxRetries, each but the last one failed
\* and followed by a wait that has elapsed when the next one is made; with
\* a valid policy withRetry settles only after an invocation, fulfilled if
\* and only if the last invocation succeeded.
AttemptsInOrder ==
  /\ Len(rCalls) <= rOptions.maxRetries
  /\ \A i \in 1..(Len(rCalls) - 1) : ~rCalls[i].ok
  /\ Len(rDelays) >= Len(rCalls) - 1
  /\ rPc = "calling"
       => /\ rAttempt = Len(rCalls) + 1
          /\ Len(rDelays) = Len(rCalls)
          /\ rResult = Pending
  /\ (rPc = "done" /\ PolicyIsValid)
       => /\ Len(rCalls) >= 1
          /\ rResult = Fulfilled <=> rCalls[Len(rCalls)].ok
          /\ rResult # Fulfilled => rResult.state = "rejected"

\* C35: with a valid policy withRetry invokes fn at least once and at most
\* maxRetries times, one invocation at a time, each after the failure of
\* the previous one and the wait that follows it; it makes no invocation
\* after one that succeeded and resolves then; and it always settles, as
\* long as every promise of fn settles and every timer fires.
C35_BoundedAttemptsAndSettles ==
  /\ []AttemptsInOrder
  /\ <>Settled

\* C35 witness: with a policy of several attempts, withRetry has resolved on
\* the last attempt it is allowed
C35_Witness ==
  /\ Settled
  /\ rOptions.maxRetries >= 3
  /\ Len(rCalls) = rOptions.maxRetries
  /\ rResult = Fulfilled

----------------------------------------------------------------------------
(* Properties of the branches left on the service *)

\* The branches on the service that the hooks of the activation created
LiveBranchesOf(a) == {b \in service : b.id \in created[a]}

\* C36 (as claimed): with branch deletion enabled, once afterAll has
\* completed without error no branch that a create-branch call of the same
\* activation's beforeAll created is left on the service, whether beforeAll
\* succeeded at once, failed, or retried after the branch was created.
C36_EveryCreatedBranchDeleted ==
  \A a \in Activations :
    (AfterAllSucceeded(a) /\ DeletionRequested(a)) => LiveBranchesOf(a) = {}

----------------------------------------------------------------------------
(* Properties of an override that is present with the value undefined *)

\* The override of the activation has the key, with the value undefined
OverridesWithUndefined(a, k) == overrides[a][k] = Undef

\* C37: an override key that is present with the value undefined hides the
\* factory value, whatever that is. With { expiresIn: undefined } the call
\* of neonTesting does not throw and every create-branch request asks for
\* the default expiry, 600 seconds after its submission; with
\* { deleteBranch: undefined } afterAll issues the delete-branch call for
\* the branch it holds.
C37_UndefinedOverrideHidesFactory ==
  [][\A a \in Activations :
       /\ (OverridesWithUndefined(a, "expiresIn")
           /\ callResult'[a] # NotCalled)
            => callResult'[a] = Returned
       /\ (OverridesWithUndefined(a, "expiresIn")
           /\ createRequest'[a] # createRequest[a])
            => createRequest'[a].expires_at = Instant(now.s + 600, now.ms)
       /\ (OverridesWithUndefined(a, "deleteBranch")
           /\ pc[a] = "tests" /\ pc'[a] # "tests"
           /\ branch[a] # NoBranch)
            => /\ deleteCall'[a].issued
               /\ deleteCall'[a].branchId = branch[a].id
    ]_vars

\* C37 witness: the factory sets an expiry of 1800 seconds, the suite
\* overrides it with undefined, and its branch was created with an expiry
\* of 600 seconds
C37_Witness ==
  \E a \in Activations :
    /\ factoryOptions["expiresIn"] = "1800"
    /\ OverridesWithUndefined(a, "expiresIn")
    /\ \E b \in service :
         /\ b.id \in created[a]
         /\ b.expires_at = Instant(b.created_at.s + 600, b.created_at.ms)

\* C37 second case: the factory disables deletion, the suite overrides
\* deleteBranch with undefined, and afterAll has deleted its branch
C37_WitnessDeleted ==
  \E a \in Activations :
    /\ factoryOptions["deleteBranch"] = "false"
    /\ OverridesWithUndefined(a, "deleteBranch")
    /\ AfterAllSucceeded(a)
    /\ deleteCall[a].issued
    /\ created[a] # {}
    /\ \A b \in service : b.id \notin created[a]

----------------------------------------------------------------------------
(* Properties of the loop of deleteAllTestBranches *)

\* The ids of the listing that carry the marker, in the order of the listing
MarkedInOrder(data) ==
  LET ids == [i \in 1..Len(data.branches) |-> data.branches[i].id]
  IN SelectSeq(ids, LAMBDA id : HasMarker(data.annotations, id))

\* The delete-branch calls of the running call of deleteAllTestBranches
CurrentDeletes == IF cCalls = 0 THEN <<>> ELSE cDeletes[cCalls]

\* A delete-branch call of the loop is answered with an error in this step
DeleteFailsNow == cPc = "deleting" /\ faults' # faults

\* C38: the delete-branch calls of a call of deleteAllTestBranches are, in
\* this order, for the marked branches of the listing in listing order; a
\* step issues at most one of them, and the next one only when the branch
\* of the previous one is gone from the service; when a delete-branch call
\* fails, deleteAllTestBranches rejects with that error in the same step
\* and issues no further call, the later marked branches stay on the
\* service, and no branch comes back.
C38_SequentialAndAbortsOnFailure ==
  [][/\ LET calls == CurrentDeletes'
            marked == MarkedInOrder(cListing')
        IN /\ Len(calls) <= Len(marked)
           /\ \A i \in 1..Len(calls) : calls[i].branchId = marked[i]
           /\ \A i \in 1..(Len(calls) - 1) :
                \A b \in service' : b.id # calls[i].branchId
     /\ cCalls' = cCalls
          => Len(CurrentDeletes') <= Len(CurrentDeletes) + 1
     /\ DeleteFailsNow
          => /\ cPc' = "done"
             /\ cResult'[cCalls].state = "rejected"
             /\ cResult'[cCalls].error.status \in FailureStatuses
             /\ cDeletes' = cDeletes
             /\ service' = service
     /\ \A c \in 1..cCalls :
          /\ cResult[c].state = "rejected" => cDeletes'[c] = cDeletes[c]
          /\ cResult[c] # Pending => cResult'[c] = cResult[c]
     /\ service' \subseteq service
    ]_vars

\* C38 witness: of three marked branches of the listing the first has been
\* deleted, the delete-branch call for the second has failed, the call of
\* deleteAllTestBranches has rejected, and the second and the third branch
\* are still on the service
C38_Witness ==
  /\ cCalls = 1 /\ cPc = "done"
  /\ cResult[1].state = "rejected"
  /\ Len(MarkedInOrder(cListing)) = 3
  /\ Len(cDeletes[1]) = 2
  /\ \A b \in service : b.id # cDeletes[1][1].branchId
  /\ \E b \in service : b.id = cDeletes[1][2].branchId
  /\ \E b \in service : b.id = MarkedInOrder(cListing)[3]

----------------------------------------------------------------------------
(* Properties of the installed constructor *)

\* The beforeAll of an auto-drain activation succeeds in this step
Installs(a) == AutoDrain(a) /\ Publishes(a)

\* C39: neonConfig.webSocketConstructor changes only in the step in which
\* the beforeAll of an auto-drain activation succeeds, which sets it to that
\* activation's tracking constructor whatever it held; an afterAll leaves it
\* as it is. A WebSocket to a host of the service that is constructed while
\* a tracking constructor is installed is added to the tracked set of the
\* activation that installed it, and to the set of no other activation; one
\* constructed while the original constructor is installed is added to no
\* set.
C39_LastInstallerTracks ==
  [][/\ \A a \in Activations : Installs(a) => webSocketConstructor' = a
     /\ webSocketConstructor' # webSocketConstructor
          => \E a \in Activations : Installs(a)
     /\ \A i \in Constructed :
          HasNeonPattern(sockets'[i].url)
            => \A a \in Activations :
                 i \in neonSockets'[a] <=> webSocketConstructor = a
     /\ \A a \in Activations :
          neonSockets'[a] \ neonSockets[a] \subseteq Constructed
    ]_vars

\* C39 witness: the tracked set of an activation that has been torn down,
\* the last one to install its constructor, holds an open connection, which
\* the tests of the other activation opened after the teardown, and the set
\* of the other activation is empty
C39_Witness ==
  \E a, b \in Activations :
    /\ a # b
    /\ webSocketConstructor = a
    /\ pc[a] = "finished"
    /\ pc[b] = "tests"
    /\ \E i \in neonSockets[a] : sockets[i].state = "OPEN"
    /\ neonSockets[b] = {}

\* C39 second case: the later auto-drain activation has overwritten the
\* constructor of the earlier one, whose tests are still under way
C39_WitnessOverwritten ==
  \E a, b \in Activations :
    /\ a # b
    /\ AutoDrain(a) /\ AutoDrain(b)
    /\ InTests(a) /\ InTests(b)
    /\ webSocketConstructor = b
    /\ neonSockets[a] # {} /\ neonSockets[b] # {}

====
